---- MODULE Spec2Model ----
(***************************************************************************)
(* Verification model of the lead-enrichment platform:                     *)
(*   - the pipeline engine and its stations  (scrapegoat/app/pipeline)     *)
(*   - the GPS provider router               (scrapegoat/app/pipeline)     *)
(*   - the mission queue and result channel  (scripts/preflight_smoke_test)*)
(*   - statistics recording                  (pipeline/router, stats)      *)
(*   - concurrent runs of one engine         (pipeline/engine)             *)
(*   - the reconciler and persistence        (scrapegoat/app/enrichment)   *)
(*   - the honeypot guard and blueprints     (chimera-core)                *)
(*   - the vision CAPTCHA agent              (chimera-core/captcha_agent)  *)
(*   - the Hive Mind and the vision endpoint (chimera_brain)               *)
(*   - browser sessions                      (scraping, workers)           *)
(* Money is counted in cents (0.15 dollars = 15).                          *)
(***************************************************************************)
EXTENDS Integers, Sequences, FiniteSets, TLC

VARIABLES
    \* ---- one pipeline run (PipelineEngine.run) ----
    route,          \* self.route: sequence of station names
    budget_limit,   \* self.budget_limit, cents
    initial_data,   \* the lead handed to run()
    data,           \* ctx.data
    total_cost,     \* ctx.total_cost, cents
    history,        \* ctx.history
    errors,         \* ctx.errors
    steps,          \* step_collector
    calls,          \* invocations of station.process, with the fields seen
    idx,            \* loop index i of "for i, station in enumerate(route)"
    pc,             \* "start", "loop", "finish", "done"
    final_data,     \* the value returned by run()
    \* ---- GPS router (router.py) and the provider blacklist ----
    stats,          \* gps:provider:<name> hashes
    state_stats,    \* gps:state:<ST>:<name> hashes
    blacklisted,    \* providers the validator subsystem has marked unusable
    rcall,          \* the router call that has just returned, or Idle
    \* ---- mission queue and result channel ----
    mission_queue,  \* the list chimera:missions (head = left end)
    results,        \* the lists chimera:results:<mission_id>
    written,        \* per mission id: result documents ever pushed
    mstate,         \* per mission id: lifecycle state
    worker,         \* per worker: what it is doing
    mission_ids,    \* producer: ids it has generated
    ppc,            \* producer: "push", "wait", "done"
    pidx,           \* producer: loop index
    traumas,        \* producer: trauma events collected
    \* ---- statistics recording (router.record_result, stats.py) ----
    datatype_stats, \* gps:datatype:<dt>:<name> hashes
    carrier_health, \* carrier_health:<domain> hashes, field per carrier
    recorder,       \* per worker: the recording call it is inside
    success_calls,  \* per provider: record_result(success=True) calls begun
    record_calls,   \* recording calls begun so far
    \* ---- concurrent runs of one engine ----
    engine,         \* the engine object: self.route, self.budget_limit
    ctx_heap,       \* the PipelineContext objects, by identity
    run,            \* per run of engine.run: its frame (lead, ctx, i, position)
    \* ---- reconciler (reconciler.py) ----
    site_data,      \* list_of_site_data: one record per provider answer
    rank_src,       \* where the weights come from: "none" or a statistics profile
    golden,         \* the golden record returned, or NotReconciled
    \* ---- persistence (database.py) ----
    leads_table,    \* table leads: linkedin_url -> row, or NoRow
    db_call,        \* the save_to_database call that has just returned
    row_count,      \* table leads: number of rows per linkedin_url
    \* ---- honeypot guard and blueprint interpreter (chimera-core) ----
    forbidden_regions, \* dojo:forbidden:<domain>: rects and selectors
    dom,            \* the page: selector -> element and its bounding box
    has_page,       \* worker._page is set
    instructions,   \* blueprint["instructions"]
    bidx,           \* loop index of "for i, step in enumerate(instructions)"
    bstatus,        \* "start", "running", "failed", "completed"
    last_step,      \* the step just executed: vision answer and guard result
    page_clicks,    \* the clicks the page has received, in order
    \* ---- vision CAPTCHA agent (chimera-core/captcha_agent.py) ----
    challenge,      \* a challenge element is on the page
    max_attempts,   \* argument of solve_with_vlm_first
    cattempt,       \* loop index i of "for i in range(max_attempts)"
    cstatus,        \* "attempting", "solved" (True), "fallback" (False)
    captcha_answer, \* the last answer of worker.process_vision
    captcha_clicks, \* page.mouse.click calls made by the agent
    \* ---- Hive Mind (chimera_brain/hive_mind.py) ----
    experiences,    \* Redis hashes experience:<screenshot_hash>
    recall,         \* the recall_experience call that has just returned
    \* ---- the Brain's vision endpoint (chimera_brain/server.py) ----
    vision_processor,  \* self.vision_processor: which class it is
    selector_failures, \* selector registry: failure count per (domain, intent)
    recovery_log,      \* per (domain, intent): outcomes of the last calls
    vision_response,   \* the VisionResponse just returned
    \* ---- browser sessions (browser_mode.py, auth_worker.py) ----
    scraper,        \* one BrowserModeScraper used as "async with"
    harvest,        \* one call of harvest_usha_token
    \* ---- a failover sequence over the router (router.py) ----
    failover,       \* the caller's loop: position, tried set, providers returned
    \* ---- database connections (db_bridge.py, enrichment/database.py) ----
    conn_call,      \* the call in progress and the result of the last one
    pool_out,       \* connections taken from the pool and not given back
    direct_open,    \* psycopg2.connect connections that are still open
    conn_calls,     \* number of calls that have returned
    \* ---- spider worker (scrapegoat/app/workers/spider_worker.py) ----
    spider_jobs,    \* the Redis list spider_jobs, next job to pop first
    spider_worker,  \* start_worker's loop: where it is, what it did last
    spider_log,     \* per popped job: what became of it
    \* ---- cookie store (scrapegoat/app/scraping/cookie_store.py) ----
    cookie_now,     \* the clock, in ticks of six hours
    cookie_key,     \* Redis key auth:cookies:<platform>
    meta_key,       \* Redis key auth:meta:<platform>
    cookie_op,      \* the set_cookies or delete_cookies call in progress
    fresh           \* the last answer of is_fresh

pvars == <<route, budget_limit, initial_data, data, total_cost, history,
           errors, steps, calls, idx, pc, final_data>>

rvars == <<stats, state_stats, blacklisted, rcall>>

mvars == <<mission_queue, results, written, mstate, worker, mission_ids,
           ppc, pidx, traumas>>

svars == <<datatype_stats, carrier_health, recorder, success_calls,
           record_calls>>

evars == <<engine, ctx_heap, run>>

gvars == <<site_data, rank_src, golden>>

dvars == <<leads_table, db_call, row_count>>

bvars == <<forbidden_regions, dom, has_page, instructions, bidx, bstatus,
           last_step, page_clicks>>

\* the worker side (chimera-core, chimera_brain, browser sessions)
cvars == <<challenge, max_attempts, cattempt, cstatus, captcha_answer,
           captcha_clicks>>

hvars == <<experiences, recall>>

tvars == <<vision_processor, selector_failures, recovery_log,
           vision_response>>

xvars == <<scraper, harvest>>

fvars == <<failover>>
nvars == <<conn_call, pool_out, direct_open, conn_calls>>
kvars == <<spider_jobs, spider_worker, spider_log>>
ovars == <<cookie_now, cookie_key, meta_key, cookie_op, fresh>>

wvars == <<bvars, cvars, hvars, tvars, xvars, fvars, nvars, kvars, ovars>>

vars == <<pvars, rvars, mvars, svars, evars, gvars, dvars, wvars>>

\* the parts of the system a step of another part leaves alone
PipelineOnly == UNCHANGED <<rvars, mvars, svars, evars, gvars, dvars, wvars>>
RouterOnly   == UNCHANGED <<pvars, mvars, svars, evars, gvars, dvars, wvars>>
MissionOnly  == UNCHANGED <<pvars, rvars, svars, evars, gvars, dvars, wvars>>
StatsOnly    == UNCHANGED <<pvars, mvars, blacklisted, rcall, evars, gvars, dvars, wvars>>
EngineOnly   == UNCHANGED <<pvars, rvars, mvars, svars, gvars, dvars, wvars>>
ReconcileOnly == UNCHANGED <<pvars, rvars, mvars, svars, evars, dvars, wvars>>
DatabaseOnly == UNCHANGED <<pvars, rvars, mvars, svars, evars, gvars, wvars>>

\* the enrichment side, left alone by every step of the worker side
enrichment_vars == <<pvars, rvars, mvars, svars, evars, gvars, dvars>>
BlueprintOnly ==
    UNCHANGED <<enrichment_vars, cvars, hvars, tvars, xvars, fvars, nvars,
                kvars, ovars>>
CaptchaOnly ==
    UNCHANGED <<enrichment_vars, bvars, hvars, tvars, xvars, fvars, nvars,
                kvars, ovars>>
HiveOnly ==
    UNCHANGED <<enrichment_vars, bvars, cvars, tvars, xvars, fvars, nvars,
                kvars, ovars>>
BrainOnly ==
    UNCHANGED <<enrichment_vars, bvars, cvars, hvars, xvars, fvars, nvars,
                kvars, ovars>>
BrowserOnly ==
    UNCHANGED <<enrichment_vars, bvars, cvars, hvars, tvars, fvars, nvars,
                kvars, ovars>>
FailoverOnly ==
    UNCHANGED <<pvars, mvars, svars, evars, gvars, dvars, bvars, cvars,
                hvars, tvars, xvars, nvars, kvars, ovars>>
ConnOnly ==
    UNCHANGED <<enrichment_vars, bvars, cvars, hvars, tvars, xvars, fvars,
                kvars, ovars>>
SpiderOnly ==
    UNCHANGED <<enrichment_vars, bvars, cvars, hvars, tvars, xvars, fvars,
                nvars, ovars>>
CookieOnly ==
    UNCHANGED <<enrichment_vars, bvars, cvars, hvars, tvars, xvars, fvars,
                nvars, kvars>>

(***************************************************************************)
(* Values and fields of a lead record                                      *)
(***************************************************************************)
Absent == "absent"      \* key not in the dict
None   == "none"        \* key present, value None / empty
V      == "v"           \* some non-empty value
True   == "true"
False  == "false"

Unknown == "UNKNOWN"     \* the dnc_status written when the lookup raised

Values == {Absent, None, V, True, False, Unknown}

Truthy(x) == x \in {V, True, Unknown}

AliasFields == {"fullName", "full_name", "Name", "first_name", "last_name"}

IdentityFields == {"firstName", "lastName", "city", "state", "zipcode",
                   "linkedinUrl", "company", "title"}

ContactFields == {"phone", "age", "income", "address", "email"}

TelnyxFields == {"is_valid", "is_mobile", "is_voip", "is_landline",
                 "carrier", "is_junk"}

DncFields == {"dnc_status", "can_contact"}

OtherFields == {"name", "income_range", "saved", "lead_id", "extra"}

Fields == AliasFields \cup IdentityFields \cup ContactFields \cup TelnyxFields
            \cup DncFields \cup OtherFields

\* the empty dict {}
EmptyDict == [f \in Fields |-> Absent]

\* a dict holding value v under every key of S
DictOf(S, v) == [f \in Fields |-> IF f \in S THEN v ELSE Absent]

\* dict.update(new): keys of new override
DictUpdate(d, new) == [f \in Fields |-> IF new[f] # Absent THEN new[f] ELSE d[f]]

\* set(dict.keys())
Keys(d) == {f \in Fields : d[f] # Absent}

\* dict.get(k) is truthy
Get(d, k) == Truthy(d[k])

(***************************************************************************)
(* Stop conditions and station contracts                                   *)
(***************************************************************************)
CONTINUE       == "continue"
SKIP_REMAINING == "skip_remaining"
FAIL           == "fail"

StopCondition == {CONTINUE, SKIP_REMAINING, FAIL}

StationNames == {"IdentityStation", "ScraperEnrichmentStation",
                 "SkipTracingStation", "TelnyxGatekeepStation",
                 "DNCGatekeeperStation", "DemographicsStation",
                 "DatabaseSaveStation", "CustomStation"}

\* cost of the custom (user-written) station of the route, cents
CustomCost == 15

required_inputs(s) ==
    CASE s = "IdentityStation"          -> {"name"}
      [] s = "ScraperEnrichmentStation" -> {"firstName", "lastName", "city", "state"}
      [] s = "SkipTracingStation"       -> {"firstName", "lastName", "city", "state"}
      [] s = "TelnyxGatekeepStation"    -> {"phone"}
      [] s = "DNCGatekeeperStation"     -> {"phone"}
      [] s = "DemographicsStation"      -> {"zipcode"}
      [] s = "DatabaseSaveStation"      -> {"linkedinUrl"}
      [] OTHER                          -> {}

produces_outputs(s) ==
    CASE s = "IdentityStation"          -> IdentityFields
      [] s = "ScraperEnrichmentStation" -> ContactFields
      [] s = "SkipTracingStation"       -> {"phone", "email"}
      [] s = "TelnyxGatekeepStation"    -> TelnyxFields
      [] s = "DNCGatekeeperStation"     -> DncFields
      [] s = "DemographicsStation"      -> {"income", "income_range", "age", "address"}
      [] s = "DatabaseSaveStation"      -> {"saved", "lead_id"}
      [] OTHER                          -> {"extra"}

cost_estimate(s) ==
    CASE s = "IdentityStation"          -> 0
      [] s = "ScraperEnrichmentStation" -> 0
      [] s = "SkipTracingStation"       -> 15
      [] s = "TelnyxGatekeepStation"    -> 1
      [] s = "DNCGatekeeperStation"     -> 2
      [] s = "DemographicsStation"      -> 1
      [] s = "DatabaseSaveStation"      -> 0
      [] OTHER                          -> CustomCost

(***************************************************************************)
(* What station.process can do: return (result_data, condition) or raise.  *)
(* The enrichment functions the stations wrap are external; their results  *)
(* are drawn from small representative sets.                               *)
(***************************************************************************)
Return(d, c)    == [kind |-> "return", data |-> d, cond |-> c]
RaiseStructured == [kind |-> "raise_structured", data |-> EmptyDict, cond |-> FAIL]
RaiseOther      == [kind |-> "raise", data |-> EmptyDict, cond |-> FAIL]

\* resolve_identity(ctx.data): the dicts it may hand back
IdentityResults ==
    { EmptyDict,
      DictOf({"firstName"}, V),
      DictOf({"firstName", "lastName"}, V),
      DictOf({"firstName", "lastName", "city", "state"}, V),
      DictOf(IdentityFields, V) }

IdentityStation_process(d) ==
    { IF Get(r, "firstName") /\ Get(r, "lastName")
        THEN Return(r, CONTINUE)
        ELSE Return(EmptyDict, FAIL) : r \in IdentityResults }
    \cup { Return(EmptyDict, FAIL) }          \* except Exception

\* scrape_enrich(ctx.data)
ScraperResults ==
    { EmptyDict, DictOf({"phone"}, V), DictOf({"age", "income"}, V),
      DictOf(ContactFields, V) }

ScraperEnrichmentStation_process(d) ==
    { Return(r, CONTINUE) : r \in ScraperResults }
    \cup { Return(EmptyDict, CONTINUE) }      \* except Exception

\* skip_trace(ctx.data)
SkipTraceResults ==
    { EmptyDict, DictOf({"email"}, V), DictOf({"phone"}, V),
      DictOf({"phone", "email"}, V) }

SkipTracingStation_process(d) ==
    IF Get(d, "phone")
      THEN { Return(EmptyDict, CONTINUE) }
      ELSE { IF Get(r, "phone") THEN Return(r, CONTINUE)
                                ELSE Return(EmptyDict, FAIL) : r \in SkipTraceResults }
           \cup { Return(EmptyDict, FAIL) }   \* except Exception

\* validate_phone_telnyx(phone): every key is present in its answer
CarrierTypes == {"mobile", "voip", "landline", "unknown"}

Bool(b) == IF b THEN True ELSE False

Validation(valid, type, junk) ==
    [f \in Fields |->
       CASE f = "is_valid"    -> Bool(valid)
         [] f = "is_mobile"   -> Bool(type = "mobile")
         [] f = "is_voip"     -> Bool(type = "voip")
         [] f = "is_landline" -> Bool(type = "landline")
         [] f = "is_junk"     -> Bool(junk)
         [] f = "carrier"     -> V
         [] OTHER             -> Absent]

validate_phone_telnyx ==
    { Validation(TRUE, "mobile", FALSE),      \* no API key / timeout: fail open
      Validation(FALSE, "unknown", FALSE) }   \* 4xx answer / other error
    \cup { Validation(v, t, j) : v \in BOOLEAN, t \in CarrierTypes, j \in BOOLEAN }

TelnyxGatekeepStation_process(d) ==
    IF ~Get(d, "phone")
      THEN { Return(EmptyDict, FAIL) }
      ELSE { IF Get(val, "is_junk") \/ Get(val, "is_voip")
                  \/ (Get(val, "is_landline") /\ ~Get(val, "is_mobile"))
               THEN Return(val, SKIP_REMAINING)
               ELSE Return(val, CONTINUE) : val \in validate_phone_telnyx }
           \cup { Return(EmptyDict, CONTINUE) }   \* except Exception: fail open

\* scrub_dnc(phone)
DncResults ==
    { [DictOf({"dnc_status"}, V) EXCEPT !["can_contact"] = True],
      [DictOf({"dnc_status"}, V) EXCEPT !["can_contact"] = False],
      DictOf({"dnc_status"}, V) }

\* dnc_result.get('can_contact', True)
CanContact(r) == IF r["can_contact"] = Absent THEN TRUE ELSE Truthy(r["can_contact"])

DNCGatekeeperStation_process(d) ==
    IF ~Get(d, "phone")
      THEN { Return(EmptyDict, FAIL) }
      ELSE { IF ~CanContact(r) THEN Return(r, SKIP_REMAINING)
                               ELSE Return(r, CONTINUE) : r \in DncResults }
           \cup { Return([DictOf({"dnc_status"}, Unknown)
                            EXCEPT !["can_contact"] = True],
                         CONTINUE) }          \* except Exception: fail open

\* enrich_demographics(contact_info)
DemographicsResults ==
    { EmptyDict, DictOf({"income", "income_range"}, V),
      DictOf({"income", "income_range", "age", "address"}, V) }

DemographicsStation_process(d) ==
    { Return(r, CONTINUE) : r \in DemographicsResults }
    \cup { Return(EmptyDict, CONTINUE) }      \* except Exception

\* save_to_database(enriched_lead) -> bool
DatabaseSaveStation_process(d) ==
    { Return(DictOf({"saved"}, True), CONTINUE),
      Return(DictOf({"saved"}, False), FAIL) }

\* a station written against the abstract base class: any result, any
\* condition, or an exception
CustomStation_process(d) ==
    { Return(r, c) : r \in {EmptyDict, DictOf({"extra"}, V)}, c \in StopCondition }
    \cup { RaiseStructured, RaiseOther }

process(s, d) ==
    CASE s = "IdentityStation"          -> IdentityStation_process(d)
      [] s = "ScraperEnrichmentStation" -> ScraperEnrichmentStation_process(d)
      [] s = "SkipTracingStation"       -> SkipTracingStation_process(d)
      [] s = "TelnyxGatekeepStation"    -> TelnyxGatekeepStation_process(d)
      [] s = "DNCGatekeeperStation"     -> DNCGatekeeperStation_process(d)
      [] s = "DemographicsStation"      -> DemographicsStation_process(d)
      [] s = "DatabaseSaveStation"      -> DatabaseSaveStation_process(d)
      [] OTHER                          -> CustomStation_process(d)

(***************************************************************************)
(* PipelineContext                                                         *)
(***************************************************************************)
\* ctx.available_fields: the fields currently present in the record
available_fields(d) == Keys(d)

\* ctx.can_afford(cost): running cost + cost stays within the budget
can_afford(total, cost, budget) == total + cost <= budget

\* ctx.update(result_data, station_name, cost, condition): merge the new
\* fields, commit the cost, append the history entry
update(d, total, hist, result_data, name, cost, condition) ==
    [data       |-> DictUpdate(d, result_data),
     total_cost |-> total + cost,
     history    |-> Append(hist, [station |-> name, cost |-> cost,
                                  condition |-> condition])]

(***************************************************************************)
(* PipelineStation.execute: prerequisite check, budget check, process      *)
(***************************************************************************)
NotInvoked(c) == [kind |-> "return", data |-> EmptyDict, cond |-> c,
                  invoked |-> FALSE]

Invoked(o) == [kind |-> o.kind, data |-> o.data, cond |-> o.cond,
               invoked |-> TRUE]

\* execute without the prerequisite check
execute_noPrerequisiteCheck(s, d, total, budget) ==
    IF ~can_afford(total, cost_estimate(s), budget)
      THEN { NotInvoked(SKIP_REMAINING) }
      ELSE { Invoked(o) : o \in process(s, d) }

\* execute without the budget check
execute_noBudgetCheck(s, d, total, budget) ==
    IF required_inputs(s) \ available_fields(d) # {}
      THEN { NotInvoked(FAIL) }
      ELSE { Invoked(o) : o \in process(s, d) }

execute(s, d, total, budget) ==
    IF required_inputs(s) \ available_fields(d) # {}
      THEN { NotInvoked(FAIL) }
      ELSE IF ~can_afford(total, cost_estimate(s), budget)
             THEN { NotInvoked(SKIP_REMAINING) }
             ELSE { Invoked(o) : o \in process(s, d) }

(***************************************************************************)
(* PipelineEngine.run                                                      *)
(***************************************************************************)
\* default budget_limit of PipelineEngine.__init__, cents
DefaultBudget == 500

Budgets == {1, 10, DefaultBudget}

Leads ==
    { EmptyDict,
      DictOf({"name", "linkedinUrl"}, V),
      DictOf({"fullName"}, V),
      DictOf({"first_name", "last_name", "zipcode", "phone"}, V),
      [DictOf({"firstName", "lastName", "city", "state", "zipcode",
               "linkedinUrl", "phone"}, V) EXCEPT !["name"] = None] }

Routes ==
    { << >>,
      <<"IdentityStation", "ScraperEnrichmentStation", "TelnyxGatekeepStation",
        "DNCGatekeeperStation", "DemographicsStation", "DatabaseSaveStation">>,
      <<"IdentityStation", "ScraperEnrichmentStation", "SkipTracingStation",
        "TelnyxGatekeepStation", "DNCGatekeeperStation", "DemographicsStation",
        "DatabaseSaveStation">>,
      <<"CustomStation", "SkipTracingStation", "CustomStation",
        "DatabaseSaveStation">> }

\* a normalisation that moves the alias into name instead of copying it
Normalize_moveAlias(d) ==
    IF ~Get(d, "name")
       /\ (Get(d, "fullName") \/ Get(d, "full_name") \/ Get(d, "Name"))
      THEN [d EXCEPT !["name"] = V, !["fullName"] = Absent,
                     !["full_name"] = Absent, !["Name"] = Absent]
      ELSE d

\* name aliasing done before the first station
Normalize(d) ==
    LET d1 == IF ~Get(d, "name")
                 /\ (Get(d, "fullName") \/ Get(d, "full_name") \/ Get(d, "Name"))
                THEN [d EXCEPT !["name"] = V] ELSE d
    IN  IF ~Get(d1, "name")
           /\ (Get(d1, "firstName") \/ Get(d1, "lastName")
               \/ Get(d1, "first_name") \/ Get(d1, "last_name"))
          THEN [d1 EXCEPT !["name"] = V] ELSE d1

\* "ok" / "stop" / "fail" of a returned condition
StatusOf(condition) ==
    IF condition = CONTINUE THEN "ok"
    ELSE IF condition = SKIP_REMAINING THEN "stop" ELSE "fail"

\* a loop that does not break on SKIP_REMAINING
AfterReturn_noBreak(condition, i, N) ==
    IF i < N THEN [pc |-> "loop", idx |-> i + 1]
    ELSE [pc |-> "finish", idx |-> i]

\* where the loop goes after station i returned condition: break on
\* SKIP_REMAINING, otherwise the next station (or the end of the route)
AfterReturn(condition, i, N) ==
    IF condition = SKIP_REMAINING THEN [pc |-> "finish", idx |-> i]
    ELSE IF i < N THEN [pc |-> "loop", idx |-> i + 1]
    ELSE [pc |-> "finish", idx |-> i]

\* a loop that lets the exception end the run
AfterRaise_abort(i, N) == [pc |-> "finish", idx |-> i]

\* where the loop goes after station i raised
AfterRaise(i, N) ==
    IF i < N THEN [pc |-> "loop", idx |-> i + 1]
    ELSE [pc |-> "finish", idx |-> i]

PipelineInit ==
    /\ route \in Routes
    /\ budget_limit \in Budgets
    /\ initial_data \in Leads
    /\ data = EmptyDict
    /\ total_cost = 0
    /\ history = << >>
    /\ errors = << >>
    /\ steps = << >>
    /\ calls = << >>
    /\ idx = 0
    /\ pc = "start"
    /\ final_data = [data |-> EmptyDict, cost |-> 0, stations_executed |-> 0,
                     errors |-> 0]

\* data = initial_data.copy(); name normalisation; ctx = PipelineContext(...)
Start ==
    /\ pc = "start"
    /\ data' = Normalize(initial_data)
    /\ idx' = IF Len(route) > 0 THEN 1 ELSE 0
    /\ pc' = IF Len(route) > 0 THEN "loop" ELSE "finish"
    /\ UNCHANGED <<route, budget_limit, initial_data, total_cost, history,
                   errors, steps, calls, final_data>>
    /\ PipelineOnly

\* one iteration whose station.execute returned o
Returned(o) ==
    LET s   == route[idx]
        ctx == update(data, total_cost, history, o.data, s, cost_estimate(s), o.cond)
        nxt == AfterReturn(o.cond, idx, Len(route))
    IN  /\ steps' = Append(steps, [station |-> s, condition |-> o.cond,
                                   status |-> StatusOf(o.cond), error |-> FALSE])
        /\ data' = ctx.data
        /\ total_cost' = ctx.total_cost
        /\ history' = ctx.history
        /\ pc' = nxt.pc
        /\ idx' = nxt.idx
        /\ calls' = IF o.invoked
                      THEN Append(calls, [idx |-> idx, station |-> s,
                                          avail |-> available_fields(data)])
                      ELSE calls
        /\ UNCHANGED <<route, budget_limit, initial_data, errors, final_data>>
        /\ PipelineOnly

\* one iteration whose station.process raised
Raised(o) ==
    LET s   == route[idx]
        nxt == AfterRaise(idx, Len(route))
    IN  /\ steps' = Append(steps, [station |-> s, condition |-> FAIL,
                                   status |-> "fail", error |-> TRUE])
        /\ errors' = Append(errors, o.kind)
        /\ calls' = Append(calls, [idx |-> idx, station |-> s,
                                   avail |-> available_fields(data)])
        /\ pc' = nxt.pc
        /\ idx' = nxt.idx
        /\ UNCHANGED <<route, budget_limit, initial_data, data, total_cost,
                       history, final_data>>
        /\ PipelineOnly

Outcomes == IF pc = "loop"
              THEN execute(route[idx], data, total_cost, budget_limit)
              ELSE {}

\* prerequisite check failed: execute returns ({}, FAIL) without process
MissingInputs ==
    \E o \in Outcomes : ~o.invoked /\ o.cond = FAIL /\ Returned(o)

\* budget check failed: execute returns ({}, SKIP_REMAINING) without process
BudgetExceeded ==
    \E o \in Outcomes : ~o.invoked /\ o.cond = SKIP_REMAINING /\ Returned(o)

\* process ran and returned (result_data, condition)
StationReturns ==
    \E o \in Outcomes : o.invoked /\ o.kind = "return" /\ Returned(o)

\* process raised ChimeraEnrichmentError
StationRaisesStructured ==
    \E o \in Outcomes : o.invoked /\ o.kind = "raise_structured" /\ Raised(o)

\* process raised any other Exception
StationRaises ==
    \E o \in Outcomes : o.invoked /\ o.kind = "raise" /\ Raised(o)

\* after the loop: attach the pipeline metadata and return
Finish ==
    /\ pc = "finish"
    /\ final_data' = [data |-> data, cost |-> total_cost,
                      stations_executed |-> Len(history),
                      errors |-> Len(errors)]
    /\ pc' = "done"
    /\ UNCHANGED <<route, budget_limit, initial_data, data, total_cost,
                   history, errors, steps, calls, idx>>
    /\ PipelineOnly

PipelineNext ==
    \/ Start
    \/ MissingInputs
    \/ BudgetExceeded
    \/ StationReturns
    \/ StationRaisesStructured
    \/ StationRaises
    \/ Finish


(***************************************************************************)
(* GPS router                                                              *)
(***************************************************************************)
MAGAZINE == <<"FastPeopleSearch", "TruePeopleSearch", "ZabaSearch",
              "SearchPeopleFree", "ThatsThem", "AnyWho">>

Providers == {MAGAZINE[i] : i \in 1..Len(MAGAZINE)}

NoProvider == "None"
NoState    == "None"
States     == {"FL"}

ZeroStats == [success_count |-> 0, failure_count |-> 0, captcha_count |-> 0,
              total_latency_ms |-> 0]

ZeroStateStats == [success_count |-> 0, failure_count |-> 0]

\* a score or boost as a fraction num/den of 1/8000 units, den > 0
Frac(n, d) == [num |-> n, den |-> d]

FracAdd(x, y) == Frac(x.num * y.den + y.num * x.den, x.den * y.den)

FracGreater(x, y) == x.num * y.den > y.num * x.den

\* st["score"] of _get_provider_stats, times 8000:
\*   (reward / n) - (avg_lat / 8000), reward = s - 0.5 c - 5 f, avg_lat = t / n
provider_score(st) ==
    LET n == st.success_count + st.failure_count
    IN  IF n = 0 THEN Frac(0, 1)
        ELSE Frac((2 * st.success_count - st.captcha_count
                   - 10 * st.failure_count) * 4000 - st.total_latency_ms, n)

\* _get_state_boost, times 8000: 0.15 * (s / n) once n >= 3
state_boost(sst, state, name) ==
    IF state = NoState THEN Frac(0, 1)
    ELSE LET s == sst[state][name].success_count
             n == s + sst[state][name].failure_count
         IN  IF n < 3 THEN Frac(0, 1) ELSE Frac(1200 * s, n)

\* _is_blacklisted: ask the validator; any exception counts as "not
\* blacklisted".  up = the validator lookup works.
is_blacklisted(name, bl, up) == IF up THEN name \in bl ELSE FALSE

\* [p for p in MAGAZINE if p not in tried and not _is_blacklisted(p, r)]
candidates(tried, bl, up) ==
    SelectSeq(MAGAZINE, LAMBDA p : p \notin tried /\ ~is_blacklisted(p, bl, up))

\* the exploit loop: first candidate of strictly greatest score + boost
RECURSIVE argmax(_, _, _, _, _, _)
argmax(cands, k, best, st, sst, state) ==
    IF k > Len(cands) THEN best
    ELSE LET sc == FracAdd(provider_score(st[cands[k]]),
                           state_boost(sst, state, cands[k]))
             bs == FracAdd(provider_score(st[best]), state_boost(sst, state, best))
         IN  argmax(cands, k + 1,
                    IF FracGreater(sc, bs) THEN cands[k] ELSE best,
                    st, sst, state)

exploit(cands, st, sst, state) == argmax(cands, 2, cands[1], st, sst, state)

\* select_provider whose explore branch draws from the whole magazine
select_provider_exploreAll(state, tried, preferred, bl, up, st, sst) ==
    LET cands == candidates(tried, bl, up)
        cset  == {cands[i] : i \in 1..Len(cands)}
    IN  IF Len(cands) = 0
          THEN { [ret |-> MAGAZINE[1], branch |-> "fallback"] }
          ELSE (IF preferred # NoProvider /\ preferred \in cset
                  THEN { [ret |-> preferred, branch |-> "preferred"] } ELSE {})
               \cup { [ret |-> c, branch |-> "explore"] : c \in Providers }
               \cup { [ret |-> exploit(cands, st, sst, state), branch |-> "exploit"] }

\* select_provider whose fallback is the last magazine entry
select_provider_fallbackLast(state, tried, preferred, bl, up, st, sst) ==
    LET cands == candidates(tried, bl, up)
        cset  == {cands[i] : i \in 1..Len(cands)}
    IN  IF Len(cands) = 0
          THEN { [ret |-> MAGAZINE[Len(MAGAZINE)], branch |-> "fallback"] }
          ELSE (IF preferred # NoProvider /\ preferred \in cset
                  THEN { [ret |-> preferred, branch |-> "preferred"] } ELSE {})
               \cup { [ret |-> c, branch |-> "explore"] : c \in cset }
               \cup { [ret |-> exploit(cands, st, sst, state), branch |-> "exploit"] }

\* select_provider: the set of (provider, branch) it can return.
\* shortcut = random.random() < 0.8, explore = random.random() < epsilon
select_provider(state, tried, preferred, bl, up, st, sst) ==
    LET cands == candidates(tried, bl, up)
        cset  == {cands[i] : i \in 1..Len(cands)}
    IN  IF Len(cands) = 0
          THEN { [ret |-> MAGAZINE[1], branch |-> "fallback"] }
          ELSE (IF preferred # NoProvider /\ preferred \in cset
                  THEN { [ret |-> preferred, branch |-> "preferred"] } ELSE {})
               \cup { [ret |-> c, branch |-> "explore"] : c \in cset }
               \cup { [ret |-> exploit(cands, st, sst, state), branch |-> "exploit"] }

\* get_next_provider that forgets tried.add(failed_provider)
get_next_provider_keepsFailed(failed_provider, tried, bl, up) ==
    LET c == candidates(tried, bl, up)
    IN  IF Len(c) > 0 THEN c[1] ELSE NoProvider

\* get_next_provider: first magazine entry not tried, not failed, not
\* blacklisted; None when there is none
get_next_provider(failed_provider, tried, bl, up) ==
    LET t == tried \cup {failed_provider}
        c == candidates(t, bl, up)
    IN  IF Len(c) > 0 THEN c[1] ELSE NoProvider

\* record_result: the hincrby calls on gps:provider:<p> and gps:state:<s>:<p>
record_provider(st, provider, success, latency_ms, captcha_solved) ==
    [st EXCEPT
       ![provider].success_count = @ + (IF success THEN 1 ELSE 0),
       ![provider].failure_count = @ + (IF success THEN 0 ELSE 1),
       ![provider].captcha_count = @ + (IF captcha_solved THEN 1 ELSE 0),
       ![provider].total_latency_ms = @ + latency_ms]

record_state(sst, provider, state, success) ==
    IF state = NoState THEN sst
    ELSE [sst EXCEPT
            ![state][provider].success_count = @ + (IF success THEN 1 ELSE 0),
            ![state][provider].failure_count = @ + (IF success THEN 0 ELSE 1)]

\* one record_result call on the provider and state hashes
record_result(st, sst, provider, state, success, latency_ms, captcha_solved) ==
    [stats       |-> record_provider(st, provider, success, latency_ms, captcha_solved),
     state_stats |-> record_state(sst, provider, state, success)]

ColdStats == [stats       |-> [p \in Providers |-> ZeroStats],
              state_stats |-> [s \in States |-> [p \in Providers |-> ZeroStateStats]]]

\* statistics left by three fast successes of TruePeopleSearch in FL and one
\* slow failure of FastPeopleSearch
WarmStats ==
    LET r1 == record_result(ColdStats.stats, ColdStats.state_stats,
                            "TruePeopleSearch", "FL", TRUE, 1000, FALSE)
        r2 == record_result(r1.stats, r1.state_stats,
                            "TruePeopleSearch", "FL", TRUE, 1000, FALSE)
        r3 == record_result(r2.stats, r2.state_stats,
                            "TruePeopleSearch", "FL", TRUE, 1000, FALSE)
    IN  record_result(r3.stats, r3.state_stats,
                      "FastPeopleSearch", NoState, FALSE, 9000, FALSE)

\* statistics left by a slow success with a CAPTCHA of ZabaSearch and a fast
\* success of AnyWho
MixedStats ==
    LET r1 == record_result(ColdStats.stats, ColdStats.state_stats,
                            "ZabaSearch", "FL", TRUE, 9000, TRUE)
    IN  record_result(r1.stats, r1.state_stats,
                      "AnyWho", NoState, TRUE, 1000, FALSE)

StatProfiles == {ColdStats, WarmStats, MixedStats}

Idle == [op |-> "idle", tried |-> {}, failed |-> NoProvider, up |-> TRUE,
         ret |-> NoProvider, branch |-> "none"]

RouterParked ==
    /\ stats = ColdStats.stats
    /\ state_stats = ColdStats.state_stats
    /\ blacklisted = {}
    /\ rcall = Idle

RouterInit ==
    /\ \E prof \in StatProfiles :
          /\ stats = prof.stats
          /\ state_stats = prof.state_stats
    /\ blacklisted = {}
    /\ rcall = Idle

\* the validator subsystem marks a provider unusable
Blacklist ==
    /\ rcall.op = "idle"
    /\ \E p \in Providers \ blacklisted : blacklisted' = blacklisted \cup {p}
    /\ UNCHANGED <<stats, state_stats, rcall>>
    /\ RouterOnly

\* a caller runs select_provider(lead, tried=..., preferred=...)
SelectProvider ==
    /\ rcall.op = "idle"
    /\ \E state \in States \cup {NoState}, tried \in SUBSET Providers,
          preferred \in Providers \cup {NoProvider}, up \in BOOLEAN :
         \E r \in select_provider(state, tried, preferred, blacklisted, up,
                                  stats, state_stats) :
            rcall' = [op |-> "select", tried |-> tried, failed |-> NoProvider,
                      up |-> up, ret |-> r.ret, branch |-> r.branch]
    /\ UNCHANGED <<stats, state_stats, blacklisted>>
    /\ RouterOnly

\* a caller runs get_next_provider(failed_provider, tried)
GetNextProvider ==
    /\ rcall.op = "idle"
    /\ \E failed \in Providers, tried \in SUBSET Providers, up \in BOOLEAN :
         rcall' = [op |-> "next", tried |-> tried, failed |-> failed, up |-> up,
                   ret |-> get_next_provider(failed, tried, blacklisted, up),
                   branch |-> "none"]
    /\ UNCHANGED <<stats, state_stats, blacklisted>>
    /\ RouterOnly

\* the caller has taken the returned provider
RouterReturn ==
    /\ rcall.op # "idle"
    /\ rcall' = Idle
    /\ UNCHANGED <<stats, state_stats, blacklisted>>
    /\ RouterOnly

RouterNext ==
    \/ Blacklist
    \/ SelectProvider
    \/ GetNextProvider
    \/ RouterReturn

PipelineParked ==
    /\ route = << >>
    /\ budget_limit = DefaultBudget
    /\ initial_data = EmptyDict
    /\ data = EmptyDict
    /\ total_cost = 0
    /\ history = << >>
    /\ errors = << >>
    /\ steps = << >>
    /\ calls = << >>
    /\ idx = 0
    /\ pc = "parked"
    /\ final_data = [data |-> EmptyDict, cost |-> 0, stations_executed |-> 0,
                     errors |-> 0]

(***************************************************************************)
(* Mission queue and result channel: the smoke-test producer and the       *)
(* workers that consume chimera:missions                                   *)
(***************************************************************************)
\* missions the producer pushes (the smoke test pushes N = 5)
N == 2

\* workers popping the mission queue
Workers == {"w1", "w2"}

\* a mission id that leaves out the loop index
MissionId_noIndex(i) == 1

\* mid = f"smoke_preflight_{ts}_{i}"
MissionId(i) == i

MissionIds == 1..N

Statuses == {"completed", "failed", "timed_out"}

Docs == [status : Statuses, captcha_solved : BOOLEAN, confident : BOOLEAN]

IdleWorker == [st |-> "idle", mid |-> 0, doc |-> [status |-> "completed",
               captcha_solved |-> FALSE, confident |-> TRUE]]

MissionInit ==
    /\ mission_queue = << >>
    /\ results = [m \in MissionIds |-> << >>]
    /\ written = [m \in MissionIds |-> 0]
    /\ mstate = [m \in MissionIds |-> "new"]
    /\ worker = [w \in Workers |-> IdleWorker]
    /\ mission_ids = << >>
    /\ ppc = "push"
    /\ pidx = 1
    /\ traumas = << >>

MissionParked ==
    /\ mission_queue = << >>
    /\ results = [m \in MissionIds |-> << >>]
    /\ written = [m \in MissionIds |-> 0]
    /\ mstate = [m \in MissionIds |-> "new"]
    /\ worker = [w \in Workers |-> IdleWorker]
    /\ mission_ids = << >>
    /\ ppc = "parked"
    /\ pidx = 1
    /\ traumas = << >>

\* after iteration pidx of a producer loop over N entries
ProducerAdvance(next_pc) ==
    IF pidx < N THEN /\ pidx' = pidx + 1
                     /\ ppc' = ppc
               ELSE /\ pidx' = 1
                    /\ ppc' = next_pc

\* r.lpush(mission_queue, json.dumps(m)) succeeds
ProducerPush ==
    /\ ppc = "push"
    /\ LET mid == MissionId(pidx)
       IN  /\ mission_ids' = Append(mission_ids, mid)
           /\ mission_queue' = <<mid>> \o mission_queue
           /\ mstate' = [mstate EXCEPT ![mid] = "queued"]
    /\ ProducerAdvance("wait")
    /\ UNCHANGED <<results, written, worker, traumas>>
    /\ MissionOnly

\* r.lpush raises: the mission is never queued
ProducerPushFails ==
    /\ ppc = "push"
    /\ LET mid == MissionId(pidx)
       IN  /\ mission_ids' = Append(mission_ids, mid)
           /\ traumas' = Append(traumas, [event |-> "LPUSH_FAILED", mid |-> mid])
    /\ ProducerAdvance("wait")
    /\ UNCHANGED <<mission_queue, results, written, mstate, worker>>
    /\ MissionOnly

\* the trauma event the producer derives from a result document
TraumaOf(doc) ==
    IF doc.status = "failed"
      THEN (IF ~doc.captcha_solved THEN "CAPTCHA_AGENT_FAILURE" ELSE "MISSION_FAILED")
    ELSE IF doc.status # "completed" THEN "MISSION_FAILED"
    ELSE IF ~doc.confident THEN "NEEDS_OLMOCR_VERIFICATION"
    ELSE "OK"

\* r.brpop(key, timeout) returns a document
ProducerPop ==
    /\ ppc = "wait"
    /\ LET mid == mission_ids[pidx]
       IN  /\ Len(results[mid]) > 0
           /\ LET doc == results[mid][Len(results[mid])]
              IN  traumas' = IF TraumaOf(doc) = "OK" THEN traumas
                             ELSE Append(traumas, [event |-> TraumaOf(doc), mid |-> mid])
           /\ results' = [results EXCEPT ![mid] = SubSeq(@, 1, Len(@) - 1)]
    /\ ProducerAdvance("done")
    /\ UNCHANGED <<mission_queue, written, mstate, worker, mission_ids>>
    /\ MissionOnly

\* r.brpop(key, timeout) returns None
ProducerTimeout ==
    /\ ppc = "wait"
    /\ LET mid == mission_ids[pidx]
       IN  /\ Len(results[mid]) = 0
           /\ traumas' = Append(traumas, [event |-> "TIMEOUT", mid |-> mid])
    /\ ProducerAdvance("done")
    /\ UNCHANGED <<mission_queue, results, written, mstate, worker, mission_ids>>
    /\ MissionOnly

\* an idle worker pops the right end of the mission queue
WorkerClaim ==
    \E w \in Workers :
        /\ worker[w].st = "idle"
        /\ Len(mission_queue) > 0
        /\ LET mid == mission_queue[Len(mission_queue)]
           IN  /\ worker' = [worker EXCEPT ![w] = [IdleWorker EXCEPT
                                 !.st = "executing", !.mid = mid]]
               /\ mstate' = [mstate EXCEPT ![mid] = "executing"]
        /\ mission_queue' = SubSeq(mission_queue, 1, Len(mission_queue) - 1)
        /\ UNCHANGED <<results, written, mission_ids, ppc, pidx, traumas>>
        /\ MissionOnly

\* the mission ends: completed, failed, or cut off by the wall-clock cap
WorkerFinish ==
    \E w \in Workers, doc \in Docs :
        /\ worker[w].st = "executing"
        /\ worker' = [worker EXCEPT ![w].st = "publishing", ![w].doc = doc]
        /\ UNCHANGED <<mission_queue, results, written, mstate, mission_ids,
                       ppc, pidx, traumas>>
        /\ MissionOnly

\* the worker pushes the single result document and is ready again
WorkerPublish ==
    \E w \in Workers :
        /\ worker[w].st = "publishing"
        /\ LET mid == worker[w].mid
           IN  /\ results' = [results EXCEPT ![mid] = <<worker[w].doc>> \o @]
               /\ written' = [written EXCEPT ![mid] = @ + 1]
               /\ mstate' = [mstate EXCEPT ![mid] = worker[w].doc.status]
        /\ worker' = [worker EXCEPT ![w] = IdleWorker]
        /\ UNCHANGED <<mission_queue, mission_ids, ppc, pidx, traumas>>
        /\ MissionOnly

MissionNext ==
    \/ ProducerPush
    \/ ProducerPushFails
    \/ ProducerPop
    \/ ProducerTimeout
    \/ WorkerClaim
    \/ WorkerFinish
    \/ WorkerPublish

(***************************************************************************)
(* Statistics recording: workers calling router.record_result and          *)
(* stats.record_carrier_result against the shared Redis                    *)
(***************************************************************************)
\* workers that report results
Recorders == {"r1", "r2"}

\* recording calls made in one behaviour
MaxRecordCalls == 3

\* data types whose latency record_result tracks
DataTypes == {"age", "income", "phone"}

ZeroDatatypeStats == [total_latency_ms |-> 0, count |-> 0]

\* arguments of the record_result calls the workers make
RecordArgs ==
    { [provider |-> "TruePeopleSearch", state |-> "FL", success |-> TRUE,
       latency_ms |-> 1000, captcha_solved |-> FALSE,
       datatypes_found |-> <<"phone", "age">>],
      [provider |-> "TruePeopleSearch", state |-> NoState, success |-> TRUE,
       latency_ms |-> 9000, captcha_solved |-> TRUE,
       datatypes_found |-> << >>],
      [provider |-> "FastPeopleSearch", state |-> "FL", success |-> FALSE,
       latency_ms |-> 9000, captcha_solved |-> FALSE,
       datatypes_found |-> <<"email">>] }

\* _domain_key: strip, lower-case, append ".com" when there is no dot
DomainKey(domain) ==
    CASE domain = ""                     -> "unknown"
      [] domain = "FastPeopleSearch"     -> "fastpeoplesearch.com"
      [] domain = "fastpeoplesearch.com" -> "fastpeoplesearch.com"
      [] OTHER                           -> domain

\* _norm_carrier: "default" when empty, else lower-case without " " and "_"
NormCarrier(carrier) ==
    CASE carrier = ""         -> "default"
      [] carrier = "T_Mobile" -> "tmobile"
      [] carrier = "tmobile"  -> "tmobile"
      [] OTHER                -> carrier

DomainKeys  == {"fastpeoplesearch.com", "unknown"}
CarrierKeys == {"tmobile", "default"}

\* arguments of the record_carrier_result calls the workers make
CarrierArgs ==
    { [domain |-> "FastPeopleSearch", carrier |-> "T_Mobile", success |-> TRUE],
      [domain |-> "fastpeoplesearch.com", carrier |-> "tmobile", success |-> FALSE],
      [domain |-> "", carrier |-> "", success |-> TRUE] }

\* "s,f" of a carrier field; a missing field reads "0,0"
ZeroCarrier == [s |-> 0, f |-> 0]

NoArgs == [call |-> "none"]

IdleRecorder == [pc |-> "idle", args |-> NoArgs, dti |-> 0, raw |-> ZeroCarrier]

\* HINCRBY that overwrites the field with the increment
hincrby_overwrite(cur, n) == n

\* HINCRBY key field n: one atomic Redis command
hincrby(cur, n) == cur + n

StatsParked ==
    /\ datatype_stats = [dt \in DataTypes |-> [p \in Providers |-> ZeroDatatypeStats]]
    /\ carrier_health = [d \in DomainKeys |-> [c \in CarrierKeys |-> ZeroCarrier]]
    /\ recorder = [w \in Recorders |-> IdleRecorder]
    /\ success_calls = [p \in Providers |-> 0]
    /\ record_calls = 0

StatsInit ==
    /\ StatsParked
    /\ stats = ColdStats.stats
    /\ state_stats = ColdStats.state_stats
    /\ blacklisted = {}
    /\ rcall = Idle

\* index of the next tracked data type after position i, 0 when none
NextDatatype(dts, i) ==
    LET later == {j \in (i + 1)..Len(dts) : dts[j] \in DataTypes}
    IN  IF later = {} THEN 0 ELSE CHOOSE j \in later : \A k \in later : j <= k

\* where record_result goes once the state hash is done: the data-type loop
AfterState(w, a) ==
    LET j == NextDatatype(a.datatypes_found, 0)
    IN  [recorder EXCEPT ![w].pc = IF j = 0 THEN "idle" ELSE "dt_latency",
                         ![w].dti = j]

\* a worker enters record_result(provider, state, success, latency_ms, ...)
BeginRecord(w) ==
    /\ recorder[w].pc = "idle"
    /\ record_calls < MaxRecordCalls
    /\ \E a \in RecordArgs :
          /\ recorder' = [recorder EXCEPT ![w] = [pc |-> "outcome", args |-> a,
                                                  dti |-> 0, raw |-> ZeroCarrier]]
          /\ success_calls' = IF a.success
                                THEN [success_calls EXCEPT ![a.provider] = @ + 1]
                                ELSE success_calls
    /\ record_calls' = record_calls + 1
    /\ UNCHANGED <<stats, state_stats, datatype_stats, carrier_health>>
    /\ StatsOnly

\* hincrby(pk, "success_count" | "failure_count", 1)
RecordOutcome(w) ==
    LET a == recorder[w].args
    IN  /\ recorder[w].pc = "outcome"
        /\ stats' = IF a.success
                      THEN [stats EXCEPT ![a.provider].success_count = hincrby(@, 1)]
                      ELSE [stats EXCEPT ![a.provider].failure_count = hincrby(@, 1)]
        /\ recorder' = [recorder EXCEPT ![w].pc = IF a.captcha_solved
                                                    THEN "captcha" ELSE "latency"]
        /\ UNCHANGED <<state_stats, datatype_stats, carrier_health,
                       success_calls, record_calls>>
        /\ StatsOnly

\* hincrby(pk, "captcha_count", 1)
RecordCaptcha(w) ==
    LET a == recorder[w].args
    IN  /\ recorder[w].pc = "captcha"
        /\ stats' = [stats EXCEPT ![a.provider].captcha_count = hincrby(@, 1)]
        /\ recorder' = [recorder EXCEPT ![w].pc = "latency"]
        /\ UNCHANGED <<state_stats, datatype_stats, carrier_health,
                       success_calls, record_calls>>
        /\ StatsOnly

\* hincrby(pk, "total_latency_ms", int(latency_ms))
RecordLatency(w) ==
    LET a == recorder[w].args
    IN  /\ recorder[w].pc = "latency"
        /\ stats' = [stats EXCEPT
                        ![a.provider].total_latency_ms = hincrby(@, a.latency_ms)]
        /\ recorder' = IF a.state # NoState
                         THEN [recorder EXCEPT ![w].pc = "state"]
                         ELSE AfterState(w, a)
        /\ UNCHANGED <<state_stats, datatype_stats, carrier_health,
                       success_calls, record_calls>>
        /\ StatsOnly

\* hincrby(sk, "success_count" | "failure_count", 1)
RecordState(w) ==
    LET a == recorder[w].args
    IN  /\ recorder[w].pc = "state"
        /\ state_stats' =
              IF a.success
                THEN [state_stats EXCEPT
                        ![a.state][a.provider].success_count = hincrby(@, 1)]
                ELSE [state_stats EXCEPT
                        ![a.state][a.provider].failure_count = hincrby(@, 1)]
        /\ recorder' = AfterState(w, a)
        /\ UNCHANGED <<stats, datatype_stats, carrier_health, success_calls,
                       record_calls>>
        /\ StatsOnly

\* hincrby(dk, "total_latency_ms", int(latency_ms / max(1, len(datatypes_found))))
RecordDatatypeLatency(w) ==
    LET a  == recorder[w].args
        dt == a.datatypes_found[recorder[w].dti]
    IN  /\ recorder[w].pc = "dt_latency"
        /\ datatype_stats' =
              [datatype_stats EXCEPT ![dt][a.provider].total_latency_ms =
                  hincrby(@, a.latency_ms \div Len(a.datatypes_found))]
        /\ recorder' = [recorder EXCEPT ![w].pc = "dt_count"]
        /\ UNCHANGED <<stats, state_stats, carrier_health, success_calls,
                       record_calls>>
        /\ StatsOnly

\* hincrby(dk, "count", 1), then the next data type
RecordDatatypeCount(w) ==
    LET a  == recorder[w].args
        dt == a.datatypes_found[recorder[w].dti]
        j  == NextDatatype(a.datatypes_found, recorder[w].dti)
    IN  /\ recorder[w].pc = "dt_count"
        /\ datatype_stats' =
              [datatype_stats EXCEPT ![dt][a.provider].count = hincrby(@, 1)]
        /\ recorder' = [recorder EXCEPT
                           ![w].pc = IF j = 0 THEN "idle" ELSE "dt_latency",
                           ![w].dti = j]
        /\ UNCHANGED <<stats, state_stats, carrier_health, success_calls,
                       record_calls>>
        /\ StatsOnly

\* a worker enters record_carrier_result(domain, carrier, success)
BeginCarrier(w) ==
    /\ recorder[w].pc = "idle"
    /\ record_calls < MaxRecordCalls
    /\ \E a \in CarrierArgs :
          recorder' = [recorder EXCEPT ![w] = [pc |-> "hget", args |-> a,
                                              dti |-> 0, raw |-> ZeroCarrier]]
    /\ record_calls' = record_calls + 1
    /\ UNCHANGED <<stats, state_stats, datatype_stats, carrier_health,
                   success_calls>>
    /\ StatsOnly

\* raw = r.hget(key, c) or "0,0"
CarrierRead(w) ==
    LET a == recorder[w].args
    IN  /\ recorder[w].pc = "hget"
        /\ recorder' = [recorder EXCEPT
                           ![w].pc = "hset",
                           ![w].raw = carrier_health[DomainKey(a.domain)]
                                                    [NormCarrier(a.carrier)]]
        /\ UNCHANGED <<stats, state_stats, datatype_stats, carrier_health,
                       success_calls, record_calls>>
        /\ StatsOnly

\* s += 1 or f += 1 on the value read; r.hset(key, c, f"{s},{f}")
CarrierWrite(w) ==
    LET a   == recorder[w].args
        raw == recorder[w].raw
    IN  /\ recorder[w].pc = "hset"
        /\ carrier_health' =
              [carrier_health EXCEPT
                 ![DomainKey(a.domain)][NormCarrier(a.carrier)] =
                    IF a.success THEN [raw EXCEPT !.s = @ + 1]
                                 ELSE [raw EXCEPT !.f = @ + 1]]
        /\ recorder' = [recorder EXCEPT ![w] = IdleRecorder]
        /\ UNCHANGED <<stats, state_stats, datatype_stats, success_calls,
                       record_calls>>
        /\ StatsOnly

\* a Redis command of record_carrier_result raises: except Exception: pass
CarrierFails(w) ==
    /\ recorder[w].pc \in {"hget", "hset"}
    /\ recorder' = [recorder EXCEPT ![w] = IdleRecorder]
    /\ UNCHANGED <<stats, state_stats, datatype_stats, carrier_health,
                   success_calls, record_calls>>
    /\ StatsOnly

StatsNext ==
    \/ \E w \in Recorders : BeginRecord(w)
    \/ \E w \in Recorders : RecordOutcome(w)
    \/ \E w \in Recorders : RecordCaptcha(w)
    \/ \E w \in Recorders : RecordLatency(w)
    \/ \E w \in Recorders : RecordState(w)
    \/ \E w \in Recorders : RecordDatatypeLatency(w)
    \/ \E w \in Recorders : RecordDatatypeCount(w)
    \/ \E w \in Recorders : BeginCarrier(w)
    \/ \E w \in Recorders : CarrierRead(w)
    \/ \E w \in Recorders : CarrierWrite(w)
    \/ \E w \in Recorders : CarrierFails(w)

(***************************************************************************)
(* Concurrent runs: two coroutines inside PipelineEngine.run of the same   *)
(* engine, interleaved at the awaits                                       *)
(***************************************************************************)
Runs == {1, 2}

\* no PipelineContext created yet
NoCtx == 0

\* the leads handed to run 1 and run 2: always two different leads
LeadPairs ==
    { <<DictOf({"name", "linkedinUrl"}, V),
        DictOf({"first_name", "last_name", "zipcode", "phone"}, V)>>,
      <<DictOf({"fullName"}, V), DictOf({"name", "linkedinUrl"}, V)>> }

\* the engines the runs share
Engines ==
    { [route |-> <<"IdentityStation", "TelnyxGatekeepStation",
                   "DatabaseSaveStation">>, budget_limit |-> DefaultBudget],
      [route |-> <<"CustomStation", "DemographicsStation">>,
       budget_limit |-> DefaultBudget] }

\* PipelineContext(data=data, budget_limit=...) right after construction
FreshContext(d) ==
    [data |-> d, total_cost |-> 0, history |-> << >>, errors |-> << >>]

\* an engine that keeps one context for all its runs
NewContext_shared(r) == 1

\* identity of the context object a call of run creates: a new object
\* per call
NewContext(r) == r

EngineParked ==
    /\ engine = [route |-> << >>, budget_limit |-> DefaultBudget]
    /\ ctx_heap = [c \in Runs |-> FreshContext(EmptyDict)]
    /\ run = [r \in Runs |-> [pc |-> "parked", lead |-> EmptyDict, ctx |-> NoCtx,
                               idx |-> 0, returned |-> 0, raised |-> 0]]

EngineInit ==
    /\ engine \in Engines
    /\ ctx_heap = [c \in Runs |-> FreshContext(EmptyDict)]
    /\ \E pair \in LeadPairs :
          run = [r \in Runs |-> [pc |-> "start", lead |-> pair[r], ctx |-> NoCtx,
                                 idx |-> 0, returned |-> 0, raised |-> 0]]

\* run r: copy the lead, normalise the name, create the context
RunStart(r) ==
    LET cid == NewContext(r)
        n   == Len(engine.route)
    IN  /\ run[r].pc = "start"
        /\ ctx_heap' = [ctx_heap EXCEPT ![cid] = FreshContext(Normalize(run[r].lead))]
        /\ run' = [run EXCEPT ![r].ctx = cid,
                              ![r].idx = IF n > 0 THEN 1 ELSE 0,
                              ![r].pc = IF n > 0 THEN "loop" ELSE "finish"]
        /\ UNCHANGED engine
        /\ EngineOnly

\* what station.execute(ctx) of run r can do now
RunOutcomes(r) ==
    IF run[r].pc = "loop"
      THEN LET c == ctx_heap[run[r].ctx]
           IN  execute(engine.route[run[r].idx], c.data, c.total_cost,
                       engine.budget_limit)
      ELSE {}

\* run r: station.execute returned; ctx.update, then break or go on
RunStationReturns(r) ==
    \E o \in RunOutcomes(r) :
       LET cid == run[r].ctx
           c   == ctx_heap[cid]
           s   == engine.route[run[r].idx]
           u   == update(c.data, c.total_cost, c.history, o.data, s,
                         cost_estimate(s), o.cond)
           nxt == AfterReturn(o.cond, run[r].idx, Len(engine.route))
       IN  /\ o.kind \notin {"raise", "raise_structured"}
           /\ ctx_heap' = [ctx_heap EXCEPT ![cid].data = u.data,
                                           ![cid].total_cost = u.total_cost,
                                           ![cid].history = u.history]
           /\ run' = [run EXCEPT ![r].pc = nxt.pc, ![r].idx = nxt.idx,
                                 ![r].returned = @ + 1]
           /\ UNCHANGED engine
           /\ EngineOnly

\* run r: station.process raised; the error is appended to ctx.errors
RunStationRaises(r) ==
    \E o \in RunOutcomes(r) :
       LET cid == run[r].ctx
           nxt == AfterRaise(run[r].idx, Len(engine.route))
       IN  /\ o.kind \in {"raise", "raise_structured"}
           /\ ctx_heap' = [ctx_heap EXCEPT ![cid].errors = Append(@, o.kind)]
           /\ run' = [run EXCEPT ![r].pc = nxt.pc, ![r].idx = nxt.idx,
                                 ![r].raised = @ + 1]
           /\ UNCHANGED engine
           /\ EngineOnly

\* run r: return ctx.data with the pipeline metadata
RunFinish(r) ==
    /\ run[r].pc = "finish"
    /\ run' = [run EXCEPT ![r].pc = "done"]
    /\ UNCHANGED <<engine, ctx_heap>>
    /\ EngineOnly

EngineNext ==
    \/ \E r \in Runs : RunStart(r)
    \/ \E r \in Runs : RunStationReturns(r)
    \/ \E r \in Runs : RunStationRaises(r)
    \/ \E r \in Runs : RunFinish(r)

(***************************************************************************)
(* Reconciler: merge the providers' records into one golden record         *)
(***************************************************************************)
\* records in list_of_site_data
MaxRecords == 2

\* values of a record's field besides Absent: None, a blank string, texts
Blank == " "

\* _non_null(rec.get(field))
non_null(v) == v \notin {Absent, None, Blank}

\* _FIELDS, of which the records here carry phone
ReservedFields == {"phone"}

\* fields outside _FIELDS the records here carry
ExtraFields == {"notes"}

\* providers of the records: two of the magazine, one the router has never
\* heard of
RecordProviders == {"FastPeopleSearch", "TruePeopleSearch", "LocalAgent"}

SiteRecords ==
    [provider : RecordProviders,
     phone    : {Absent, Blank, "p1", "p2"},
     notes    : {Absent, "n1", "n2"}]

SiteDataLists ==
    UNION { [1..n -> SiteRecords] : n \in 0..MaxRecords }

\* no entry for the provider in the weights dict
NoWeight == -1

\* round(success_rate * 100, 1) / 100 of get_rankings, in thousandths
\* (halves round up here; Python rounds them to even)
RankedWeight(st) ==
    LET n == st.success_count + st.failure_count
    IN  IF n = 0 THEN 500 ELSE (2000 * st.success_count + n) \div (2 * n)

\* where _get_weights can take the rankings from: nowhere (r is None, the
\* router cannot be imported, get_rankings raises), or Redis in one of the
\* statistics profiles
RankSources == {"none", "cold", "warm", "mixed"}

ProfileOf(src) ==
    CASE src = "warm"  -> WarmStats
      [] src = "mixed" -> MixedStats
      [] OTHER         -> ColdStats

\* weights = _get_weights(r), or 0.5 for every provider of the list when
\* that is empty
get_weights(src, recs) ==
    [p \in Providers \cup RecordProviders |->
        IF src = "none"
          THEN IF \E k \in 1..Len(recs) : recs[k].provider = p
                 THEN 500 ELSE NoWeight
          ELSE IF p \in Providers
                 THEN RankedWeight(ProfileOf(src).stats[p]) ELSE NoWeight]

\* weights.get(p, default)
weight_get(weights, p, default) ==
    IF weights[p] = NoWeight THEN default ELSE weights[p]

\* a comparison that lets a later record of equal weight win
Better_orEqual(w, best_w) == w >= best_w

\* if w > best_w
Better(w, best_w) == w > best_w

\* the loop over list_of_site_data for one field of _FIELDS
RECURSIVE best_value(_, _, _, _, _, _)
best_value(recs, field, weights, k, best_val, best_w) ==
    IF k > Len(recs) THEN best_val
    ELSE LET v == recs[k][field]
             w == weight_get(weights, recs[k].provider, 500)
         IN  IF non_null(v) /\ Better(w, best_w)
               THEN best_value(recs, field, weights, k + 1, v, w)
               ELSE best_value(recs, field, weights, k + 1, best_val, best_w)

\* the loop that carries the extra fields over
RECURSIVE carry_extras(_, _, _, _)
carry_extras(recs, weights, k, out) ==
    IF k > Len(recs) THEN out
    ELSE IF weight_get(weights, recs[k].provider, 0) < 500
           THEN carry_extras(recs, weights, k + 1, out)
           ELSE carry_extras(recs, weights, k + 1,
                  [f \in DOMAIN out |->
                     IF f \in ExtraFields /\ non_null(recs[k][f])
                        /\ out[f] = Absent
                       THEN recs[k][f] ELSE out[f]])

\* reconcile_results(list_of_site_data, r)
reconcile_results(recs, src) ==
    LET weights == get_weights(src, recs)
        chosen  == [f \in ReservedFields \cup ExtraFields |->
                      IF f \in ReservedFields
                        THEN best_value(recs, f, weights, 1, Absent, -1000)
                        ELSE Absent]
    IN  carry_extras(recs, weights, 1, chosen)

NotReconciled == [phone |-> "-", notes |-> "-"]

ReconcileParked ==
    /\ site_data = << >>
    /\ rank_src = "none"
    /\ golden = NotReconciled

ReconcileInit ==
    /\ site_data \in SiteDataLists
    /\ rank_src \in RankSources
    /\ golden = NotReconciled

\* a caller runs reconcile_results(list_of_site_data, r)
Reconcile ==
    /\ golden = NotReconciled
    /\ golden' = reconcile_results(site_data, rank_src)
    /\ UNCHANGED <<site_data, rank_src>>
    /\ ReconcileOnly

ReconcileNext == Reconcile

(***************************************************************************)
(* Persistence: save_to_database and the leads table                       *)
(***************************************************************************)
Urls == {"u1"}

NoRow == [row |-> "none"]

\* keys of the enriched lead that save_to_database reads here
LeadKeys == {"linkedinUrl", "name", "phone", "dnc_status", "status",
             "can_contact"}

\* the enriched leads handed to save_to_database
EnrichedLeads ==
    [linkedinUrl : {Absent} \cup Urls,
     name        : {Absent, "n1"},
     phone       : {Absent, "p1", "p2"},
     dnc_status  : {Absent, "CLEAR"},
     status      : {Absent, "DNC"},
     can_contact : {Absent, True}]

\* enriched_lead.get(k): None for a missing key
dict_get(lead, k) == IF lead[k] = Absent THEN None ELSE lead[k]

\* enriched_lead.get(k, default)
dict_get_default(lead, k, default) ==
    IF lead[k] = Absent THEN default ELSE lead[k]

\* a or b on values of which only None and "" are falsy
Or(a, b) == IF a \in {None, ""} THEN b ELSE a

\* the values save_to_database extracts from the lead
extract(lead) ==
    [linkedin_url |-> dict_get(lead, "linkedinUrl"),
     name         |-> Or(dict_get(lead, "name"), ""),
     phone        |-> dict_get(lead, "phone"),
     dnc_status   |-> Or(dict_get(lead, "dnc_status"),
                         dict_get_default(lead, "status", "UNKNOWN")),
     can_contact  |-> dict_get_default(lead, "can_contact", False)]

\* columns the ON CONFLICT clause updates
UpdatedColumns == {"phone", "dnc_status", "can_contact"}

\* an upsert that writes the incoming value whatever it is
COALESCE_overwrite(new, old) == new

\* COALESCE(EXCLUDED.col, leads.col)
COALESCE(new, old) == IF new # None THEN new ELSE old

\* INSERT ... ON CONFLICT (linkedin_url) DO UPDATE SET ...
upsert(row, x) ==
    IF row = NoRow
      THEN [name |-> x.name, phone |-> x.phone, dnc_status |-> x.dnc_status,
            can_contact |-> x.can_contact]
      ELSE [c \in DOMAIN row |->
              IF c \in UpdatedColumns THEN COALESCE(x[c], row[c]) ELSE row[c]]

NoDbCall == [op |-> "none", lead |-> [k \in LeadKeys |-> Absent], ret |-> FALSE]

\* a table without the unique index on linkedin_url: no insert conflicts
on_conflict_never(n) == FALSE

\* ON CONFLICT (linkedin_url): the insert meets a row with the same
\* linkedin_url (n rows hold it), detected atomically by the unique index
on_conflict(n) == n > 0

DatabaseParked ==
    /\ leads_table = [u \in Urls |-> NoRow]
    /\ row_count = [u \in Urls |-> 0]
    /\ db_call = NoDbCall

DatabaseInit == DatabaseParked

\* save_to_database of a lead whose linkedin_url has no row yet
SaveInserts ==
    \E lead \in EnrichedLeads :
       LET x == extract(lead)
       IN  /\ x.linkedin_url \in Urls
           /\ ~on_conflict(row_count[x.linkedin_url])
           /\ leads_table' = [leads_table EXCEPT
                                ![x.linkedin_url] = upsert(NoRow, x)]
           /\ row_count' = [row_count EXCEPT ![x.linkedin_url] = @ + 1]
           /\ db_call' = [op |-> "insert", lead |-> lead, ret |-> TRUE]
           /\ DatabaseOnly

\* save_to_database of a lead that already has a row: ON CONFLICT DO UPDATE
SaveUpdates ==
    \E lead \in EnrichedLeads :
       LET x == extract(lead)
       IN  /\ x.linkedin_url \in Urls
           /\ on_conflict(row_count[x.linkedin_url])
           /\ leads_table' = [leads_table EXCEPT
                                ![x.linkedin_url] = upsert(@, x)]
           /\ UNCHANGED row_count
           /\ db_call' = [op |-> "update", lead |-> lead, ret |-> TRUE]
           /\ DatabaseOnly

\* linkedin_url is NULL: the NOT NULL column raises IntegrityError, which
\* save_to_database reports as success
SaveRejected ==
    \E lead \in EnrichedLeads :
       /\ extract(lead).linkedin_url = None
       /\ db_call' = [op |-> "integrity_error", lead |-> lead, ret |-> TRUE]
       /\ UNCHANGED <<leads_table, row_count>>
       /\ DatabaseOnly

\* DATABASE_URL unset, or the connection or statement raises
SaveFails ==
    \E lead \in EnrichedLeads :
       /\ db_call' = [op |-> "error", lead |-> lead, ret |-> FALSE]
       /\ UNCHANGED <<leads_table, row_count>>
       /\ DatabaseOnly

DatabaseNext ==
    \/ SaveInserts
    \/ SaveUpdates
    \/ SaveRejected
    \/ SaveFails

(***************************************************************************)
(* The honeypot guard and the blueprint interpreter                        *)
(* (chimera-core/visibility_check.py, chimera-core/blueprint_interpreter.py)*)
(* Coordinates are whole pixels; element boxes have even sizes so that the *)
(* box centre x + width / 2 is a whole pixel.                              *)
(***************************************************************************)
_VLM_SPATIAL_TOLERANCE_PX == 120

NoCoord == -1       \* coords.get("x") is None

Selectors == {"#a", "#trap"}
NoSelector == ""    \* step.get("selector") or step.get("sel") is falsy

\* dojo:forbidden:<domain> as get_forbidden_regions returns it; the empty
\* regions also stand for "no Redis", "no key" and unparsable JSON
NoRegions == [rects |-> {}, selectors |-> {}]
TrapRect == [x |-> 90, y |-> 0, width |-> 20, height |-> 20]
\* a red zone painted over the place where the rendered element sits
CoverRect == [x |-> 0, y |-> 0, width |-> 40, height |-> 20]
ForbiddenRegions ==
    {[rects |-> rs, selectors |-> ss] :
        rs \in {{}, {TrapRect}, {CoverRect}}, ss \in {{}, {"#trap"}}}

\* what page.query_selector and elem.bounding_box give for a selector
NotInDom == [present |-> FALSE, box |-> FALSE,
             x |-> 0, y |-> 0, width |-> 0, height |-> 0]
Hidden   == [present |-> TRUE, box |-> FALSE,
             x |-> 0, y |-> 0, width |-> 0, height |-> 0]
Rendered == [present |-> TRUE, box |-> TRUE,
             x |-> 0, y |-> 0, width |-> 40, height |-> 20]
Elements == {NotInDom, Hidden, Rendered}
Doms == [Selectors -> Elements]

\* what take_screenshot + worker.process_vision give: None, an exception,
\* or a dict with found, x, y
VisionNull  == [kind |-> "null", found |-> FALSE, x |-> NoCoord, y |-> NoCoord]
VisionRaise == [kind |-> "raise", found |-> FALSE, x |-> NoCoord, y |-> NoCoord]
NotCalled   == [kind |-> "not_called", found |-> FALSE, x |-> NoCoord,
                y |-> NoCoord]
VisionPoints == {<<20, 10>>, <<100, 10>>, <<141, 10>>, <<220, 110>>}
VisionAnswers ==
    {VisionNull, VisionRaise,
     [kind |-> "answer", found |-> FALSE, x |-> NoCoord, y |-> NoCoord],
     [kind |-> "answer", found |-> TRUE, x |-> NoCoord, y |-> NoCoord]}
    \cup {[kind |-> "answer", found |-> TRUE, x |-> p[1], y |-> p[2]] :
            p \in VisionPoints}

Abs(n) == IF n < 0 THEN -n ELSE n

is_in_forbidden_region(regs, x, y) ==
    \E r \in regs.rects :
        /\ r.x <= x /\ x <= r.x + r.width
        /\ r.y <= y /\ y <= r.y + r.height

is_selector_forbidden(regs, selector) == selector \in regs.selectors

\* the vision answer carries coordinates
has_coords(coords) ==
    coords.found /\ coords.x # NoCoord /\ coords.y # NoCoord

Check(ok, honeypot) == [ok |-> ok, honeypot |-> honeypot]

\* a guard that lets the click through when vision locates nothing
not_on_visual_map_open(coords) == Check(TRUE, FALSE)

\* visibility_check.py:164-166
not_on_visual_map(coords) == Check(FALSE, TRUE)

\* a guard that blocks when the vision call returns None
brain_unavailable_closed(coords) == Check(FALSE, TRUE)

\* visibility_check.py:161-163
brain_unavailable(coords) == Check(TRUE, FALSE)

\* the screenshot and the vision call of step 3 are reached
vision_reached(page, regs, selector, elem) ==
    /\ page
    /\ ~is_selector_forbidden(regs, selector)
    /\ elem.present
    /\ elem.box

check_before_selector_click(page, regs, selector, elem, coords) ==
    IF ~page THEN Check(FALSE, FALSE)
    ELSE IF is_selector_forbidden(regs, selector) THEN Check(FALSE, TRUE)
    ELSE IF ~elem.present THEN Check(FALSE, FALSE)
    ELSE IF ~elem.box THEN Check(FALSE, TRUE)
    ELSE IF coords.kind = "raise" THEN Check(FALSE, TRUE)
    ELSE IF coords.kind = "null" THEN brain_unavailable(coords)
    ELSE IF ~has_coords(coords) THEN not_on_visual_map(coords)
    ELSE LET cx == elem.x + elem.width \div 2
             cy == elem.y + elem.height \div 2
             l1 == Abs(coords.x - cx) + Abs(coords.y - cy)
         IN  IF l1 > _VLM_SPATIAL_TOLERANCE_PX THEN Check(FALSE, TRUE)
             ELSE IF is_in_forbidden_region(regs, coords.x, coords.y)
                  THEN Check(FALSE, TRUE)
             ELSE Check(TRUE, FALSE)

check_before_coords_click(page, regs, x, y) ==
    IF ~page THEN TRUE
    ELSE ~is_in_forbidden_region(regs, x, y)

\* a safe_click that clicks whatever the check says
clicks_when_unchecked(check) == TRUE

\* worker.safe_click: the behavioural click is made when the check is ok
clicks_when(check) == check.ok

MaxInstructions == 2

\* the step types the interpreter has a branch for
KnownTypes ==
    {"goto", "wait", "click", "input", "type", "fill", "vlm_ground", "vlm",
     "vision"}
\* a "type" that is a JSON number, not a string
NonStringTypes == {"<number>"}

BlueprintSteps ==
    {[type |-> "click", sel |-> s] : s \in Selectors \cup {NoSelector}}
    \cup {[type |-> "vlm_ground", sel |-> NoSelector],
          [type |-> "wait", sel |-> NoSelector],
          [type |-> "scroll", sel |-> NoSelector],
          [type |-> "<number>", sel |-> NoSelector]}

\* typ = (step.get("type") or step.get("action") or "").strip().lower():
\* .strip() exists on strings only
typ_raises(step) == step.type \in NonStringTypes

Blueprints ==
    UNION {[1..n -> BlueprintSteps] : n \in 1..MaxInstructions}

NoCheck == [ok |-> FALSE, honeypot |-> FALSE]
NoStep ==
    [type |-> "none", sel |-> NoSelector, vision |-> NotCalled,
     check |-> NoCheck]

SelectorClick(sel) == [kind |-> "selector", sel |-> sel, x |-> NoCoord,
                       y |-> NoCoord]
MouseClick(x, y) == [kind |-> "mouse", sel |-> NoSelector, x |-> x, y |-> y]

BlueprintParked ==
    /\ forbidden_regions = NoRegions
    /\ dom = [s \in Selectors |-> NotInDom]
    /\ has_page = FALSE
    /\ instructions = <<>>
    /\ bidx = 0
    /\ bstatus = "parked"
    /\ last_step = NoStep
    /\ page_clicks = <<>>

BlueprintInit ==
    /\ forbidden_regions \in ForbiddenRegions
    /\ dom \in Doms
    /\ has_page \in BOOLEAN
    /\ instructions \in Blueprints
    /\ bidx = 0
    /\ bstatus = "start"
    /\ last_step = NoStep
    /\ page_clicks = <<>>

BpFixed == UNCHANGED <<forbidden_regions, dom, has_page, instructions>>

\* page = getattr(worker, "_page", None); if not page: return failed
BpNoPage ==
    /\ bstatus = "start"
    /\ ~has_page
    /\ bstatus' = "failed"
    /\ UNCHANGED <<bidx, last_step, page_clicks>>
    /\ BpFixed
    /\ BlueprintOnly

BpStart ==
    /\ bstatus = "start"
    /\ has_page
    /\ bstatus' = "running"
    /\ bidx' = 1
    /\ UNCHANGED <<last_step, page_clicks>>
    /\ BpFixed
    /\ BlueprintOnly

BpAtStep == bstatus = "running" /\ bidx <= Len(instructions)

\* typ == "click": worker.safe_click(sel, ...)
BpClick ==
    /\ BpAtStep
    /\ instructions[bidx].type = "click"
    /\ instructions[bidx].sel # NoSelector
    /\ \E answer \in VisionAnswers :
         LET sel == instructions[bidx].sel
             asked == vision_reached(has_page, forbidden_regions, sel,
                                     dom[sel])
             check == check_before_selector_click(has_page,
                          forbidden_regions, sel, dom[sel], answer)
         IN  /\ last_step' = [type |-> "click", sel |-> sel,
                              vision |-> IF asked THEN answer ELSE NotCalled,
                              check |-> check]
             /\ page_clicks' = IF clicks_when(check)
                               THEN Append(page_clicks, SelectorClick(sel))
                               ELSE page_clicks
    /\ bidx' = bidx + 1
    /\ UNCHANGED bstatus
    /\ BpFixed
    /\ BlueprintOnly

\* typ in ("vlm_ground", "vlm", "vision")
BpVlmGround ==
    /\ BpAtStep
    /\ instructions[bidx].type = "vlm_ground"
    /\ \E coords \in VisionAnswers :
         /\ last_step' = [type |-> "vlm_ground", sel |-> NoSelector,
                          vision |-> coords, check |-> NoCheck]
         /\ page_clicks' = IF coords.kind = "answer" /\ has_coords(coords)
                           THEN Append(page_clicks,
                                       MouseClick(coords.x, coords.y))
                           ELSE page_clicks
    /\ bidx' = bidx + 1
    /\ UNCHANGED bstatus
    /\ BpFixed
    /\ BlueprintOnly

\* goto, wait, and a click step without a selector: no click is made
BpOther ==
    /\ BpAtStep
    /\ \/ instructions[bidx].type = "wait"
       \/ /\ instructions[bidx].type = "click"
          /\ instructions[bidx].sel = NoSelector
    /\ last_step' = [type |-> instructions[bidx].type, sel |-> NoSelector,
                     vision |-> NotCalled, check |-> NoCheck]
    /\ bidx' = bidx + 1
    /\ UNCHANGED <<bstatus, page_clicks>>
    /\ BpFixed
    /\ BlueprintOnly

\* no branch matches: logger.debug("Blueprint: unknown step type %s", typ)
BpUnknown ==
    /\ BpAtStep
    /\ ~typ_raises(instructions[bidx])
    /\ instructions[bidx].type \notin KnownTypes
    /\ last_step' = [type |-> instructions[bidx].type, sel |-> NoSelector,
                     vision |-> NotCalled, check |-> NoCheck]
    /\ bidx' = bidx + 1
    /\ UNCHANGED <<bstatus, page_clicks>>
    /\ BpFixed
    /\ BlueprintOnly

\* computing typ raises AttributeError, which nothing in the loop catches
BpTypRaises ==
    /\ BpAtStep
    /\ typ_raises(instructions[bidx])
    /\ bstatus' = "raised"
    /\ UNCHANGED <<bidx, last_step, page_clicks>>
    /\ BpFixed
    /\ BlueprintOnly

\* return {"status": "completed", "blueprint_done": True}
BpReturn ==
    /\ bstatus = "running"
    /\ bidx > Len(instructions)
    /\ bstatus' = "completed"
    /\ UNCHANGED <<bidx, last_step, page_clicks>>
    /\ BpFixed
    /\ BlueprintOnly

BlueprintNext ==
    \/ BpNoPage
    \/ BpStart
    \/ BpClick
    \/ BpVlmGround
    \/ BpOther
    \/ BpUnknown
    \/ BpTypRaises
    \/ BpReturn

(***************************************************************************)
(* The vision CAPTCHA agent (chimera-core/captcha_agent.py)                *)
(***************************************************************************)
DefaultMaxAttempts == 2

MaxAttempts == {1, DefaultMaxAttempts, 3}

TilePoints == {<<10, 20>>, <<30, 40>>}

\* the pairs the regular expression finds in coords["description"], in order
Descriptions == {<<>>, <<<<10, 20>>>>, <<<<10, 20>>, <<30, 40>>>>,
                 <<<<30, 40>>, <<30, 40>>>>}

\* worker.process_vision(...) for the puzzle: None or a dict
CaptchaNull == [kind |-> "null", found |-> FALSE, x |-> NoCoord,
                y |-> NoCoord, description |-> <<>>]
CaptchaAnswers ==
    {CaptchaNull}
    \cup {[kind |-> "answer", found |-> FALSE, x |-> NoCoord, y |-> NoCoord,
           description |-> d] : d \in Descriptions}
    \cup {[kind |-> "answer", found |-> TRUE, x |-> p[1], y |-> p[2],
           description |-> d] : p \in TilePoints, d \in {<<>>, <<<<10, 20>>>>}}
    \cup {[kind |-> "answer", found |-> TRUE, x |-> NoCoord, y |-> NoCoord,
           description |-> <<>>]}

\* offset of the challenge iframe on the page
FrameOffsets == {0, 50}

InSeq(e, s) == \E i \in 1..Len(s) : s[i] = e

RECURSIVE add_pairs(_, _)
add_pairs(out, pairs) ==
    IF pairs = <<>> THEN out
    ELSE add_pairs(IF InSeq(Head(pairs), out) THEN out
                   ELSE Append(out, Head(pairs)),
                   Tail(pairs))

_parse_coords_from_response(description, single_x, single_y) ==
    LET single == IF single_x # NoCoord /\ single_y # NoCoord
                  THEN <<<<single_x, single_y>>>> ELSE <<>>
    IN  add_pairs(single, description)

\* the coordinates solve_visual_puzzle will click, <<>> when it returns False
parsed_coords(coords) ==
    _parse_coords_from_response(coords.description, coords.x, coords.y)

\* return len(parsed) > 0
puzzle_result(parsed, remains) == Len(parsed) > 0

RECURSIVE with_offset(_, _)
with_offset(parsed, off) ==
    IF parsed = <<>> THEN <<>>
    ELSE <<<<Head(parsed)[1] + off, Head(parsed)[2] + off>>>>
         \o with_offset(Tail(parsed), off)

CaptchaParked ==
    /\ challenge = FALSE
    /\ max_attempts = 0
    /\ cattempt = 0
    /\ cstatus = "parked"
    /\ captcha_answer = CaptchaNull
    /\ captcha_clicks = <<>>

\* a challenge element is on the page when the resolver is called
CaptchaInit ==
    /\ challenge = TRUE
    /\ max_attempts \in MaxAttempts
    /\ cattempt = 0
    /\ cstatus = "attempting"
    /\ captcha_answer = CaptchaNull
    /\ captcha_clicks = <<>>

\* solve_visual_puzzle returns before the vision call: no usable screenshot,
\* or an exception on the way
PuzzleNoScreenshot ==
    /\ cstatus = "attempting"
    /\ cattempt < max_attempts
    /\ cattempt' = cattempt + 1
    /\ UNCHANGED <<challenge, max_attempts, cstatus, captcha_answer,
                   captcha_clicks>>
    /\ CaptchaOnly

\* solve_visual_puzzle with a vision answer; the page may or may not drop
\* the challenge after the clicks
PuzzleAttempt ==
    /\ cstatus = "attempting"
    /\ cattempt < max_attempts
    /\ \E coords \in CaptchaAnswers, off \in FrameOffsets, remains \in BOOLEAN :
         LET parsed == parsed_coords(coords)
         IN  /\ captcha_answer' = coords
             /\ captcha_clicks' = captcha_clicks \o with_offset(parsed, off)
             /\ challenge' = IF parsed = <<>> THEN challenge ELSE remains
             /\ cstatus' = IF puzzle_result(parsed, challenge')
                           THEN "solved" ELSE cstatus
    /\ cattempt' = cattempt + 1
    /\ UNCHANGED max_attempts
    /\ CaptchaOnly

\* the loop of solve_with_vlm_first is exhausted: return False
PuzzleGiveUp ==
    /\ cstatus = "attempting"
    /\ cattempt >= max_attempts
    /\ cstatus' = "fallback"
    /\ UNCHANGED <<challenge, max_attempts, cattempt, captcha_answer,
                   captcha_clicks>>
    /\ CaptchaOnly

CaptchaNext ==
    \/ PuzzleNoScreenshot
    \/ PuzzleAttempt
    \/ PuzzleGiveUp

(***************************************************************************)
(* The Hive Mind experience memory (chimera_brain/hive_mind.py)            *)
(* A screenshot hash is the pair <<first 16 characters, rest>>.  The       *)
(* sentence encoder is taken to give different vectors to different texts; *)
(* cosine distance is 0 between equal vectors and is classed as near       *)
(* (below the threshold) or far otherwise.                                 *)
(***************************************************************************)
AxSummaries == {"ax1", "ax2"}

ScreenshotHashes == {<<"h1", "a">>, <<"h1", "b">>, <<"h2", "a">>}

ActionPlans == {"plan1", "plan2"}

NoPlan == "None"

\* screenshot_hash[:16]
first16(screenshot_hash) == screenshot_hash[1]

\* an embedding of the AX tree and the whole screenshot hash
_generate_embedding_fullHash(ax_tree_summary, screenshot_hash) ==
    <<ax_tree_summary, screenshot_hash>>

\* encode(f"{ax_tree_summary}\n{screenshot_hash[:16]}")
_generate_embedding(ax_tree_summary, screenshot_hash) ==
    <<ax_tree_summary, first16(screenshot_hash)>>

json_dumps(action_plan) == <<"json", action_plan>>
json_loads(text) == text[2]

NoExperience ==
    [stored |-> FALSE, vector |-> <<>>, action_plan |-> <<>>, success |-> "0"]

Experience(vector, action_plan, success) ==
    [stored |-> TRUE, vector |-> vector,
     action_plan |-> json_dumps(action_plan),
     success |-> IF success THEN "1" ELSE "0"]

\* cosine distances in thousandths: 0 between equal vectors; between
\* different vectors one of 0.01, 0.05 and 0.1
DistanceClasses == {10, 50, 100}
\* the score below which the nearest experience is a hit (0.1)
RecallThreshold == 100
recall_hit(score) == score < RecallThreshold
distance(v, w, other) == IF v = w THEN 0 ELSE other

NoScore == -1
NoRecall == [call |-> "none"]

HiveParked ==
    /\ experiences = [h \in ScreenshotHashes |-> NoExperience]
    /\ recall = NoRecall

HiveInit == HiveParked

\* store_experience: HSET experience:<screenshot_hash>
StoreExperience ==
    /\ \E ax \in AxSummaries, h \in ScreenshotHashes, plan \in ActionPlans,
          success \in BOOLEAN :
         experiences' = [experiences EXCEPT
            ![h] = Experience(_generate_embedding(ax, h), plan, success)]
    /\ recall' = NoRecall
    /\ HiveOnly

\* store_experience: the embedding or the HSET raises; logged and dropped
StoreFails ==
    /\ recall' = [call |-> "store_failed"]
    /\ UNCHANGED experiences
    /\ HiveOnly

\* recall_experience: KNN 1 over the index, hit when the score is below 0.1
RecallExperience ==
    /\ \E ax \in AxSummaries, h \in ScreenshotHashes, other \in DistanceClasses :
         LET embedding == _generate_embedding(ax, h)
             docs == {k \in ScreenshotHashes : experiences[k].stored}
             score(k) == distance(experiences[k].vector, embedding, other)
             nearest == {k \in docs : \A j \in docs : score(k) <= score(j)}
         IN  IF docs = {}
             THEN recall' = [call |-> "recall", ax |-> ax, hash |-> h,
                             score |-> NoScore, result |-> NoPlan]
             ELSE \E k \in nearest :
                    recall' = [call |-> "recall", ax |-> ax, hash |-> h,
                               score |-> score(k),
                               result |-> IF recall_hit(score(k))
                                          THEN json_loads(experiences[k].action_plan)
                                          ELSE NoPlan]
    /\ UNCHANGED experiences
    /\ HiveOnly

\* recall_experience: the search raises; returns None
RecallFails ==
    /\ \E ax \in AxSummaries, h \in ScreenshotHashes :
         recall' = [call |-> "recall_failed", ax |-> ax, hash |-> h,
                    result |-> NoPlan]
    /\ UNCHANGED experiences
    /\ HiveOnly

HiveNext ==
    \/ StoreExperience
    \/ StoreFails
    \/ RecallExperience
    \/ RecallFails

(***************************************************************************)
(* The Brain's vision endpoint and the Trauma Center                       *)
(* (chimera_brain/server.py; the selector registry is modelled from the    *)
(* specification).  Confidences are hundredths.                            *)
(***************************************************************************)
TraumaThreshold == 3

\* the failure counts of the registry are followed up to this value
MaxFailures == 4

RequestContexts == {"", "https://a.example/login"}

TextCommands == {"", "login button"}

\* domain = the URL found in request.context, else "unknown"
domain_of(context) == IF context = "" THEN "unknown" ELSE context

RegistryKeys ==
    {<<domain_of(c), t>> : c \in RequestContexts, t \in TextCommands \ {""}}

\* get_click_coordinates(...)[2]
Confidences == {50, 90}

\* find_new_selector: raises, or returns a selector (or none) and a confidence
SelectorResults ==
    {[kind |-> "raise", selector |-> "", confidence |-> 0]}
    \cup {[kind |-> "result", selector |-> s, confidence |-> cf] :
            s \in {"", "#login"}, cf \in {40, 80}}

\* SimpleCoordinateDetector has no find_new_selector
VisionProcessors == {"VisualIntentProcessor", "SimpleCoordinateDetector"}

\* selector registry: running consecutive-failure count per (domain, intent)
should_trigger_trauma_center(failures, key) == failures[key] >= TraumaThreshold

record_failure(failures, key) == [failures EXCEPT ![key] = @ + 1]

record_success(failures, key) == [failures EXCEPT ![key] = 0]

\* the outcome of the last calls on a key, latest last, at most three kept
Logged(log, outcome) ==
    IF Len(log) < TraumaThreshold THEN Append(log, outcome)
    ELSE Append(Tail(log), outcome)

NoResponse == [kind |-> "none", key |-> <<"", "">>]

BrainParked ==
    /\ vision_processor = "parked"
    /\ selector_failures = [k \in RegistryKeys |-> 0]
    /\ recovery_log = [k \in RegistryKeys |-> <<>>]
    /\ vision_response = NoResponse

\* the registry is persistent: a key starts with no failures on record or
\* with the count at the threshold
BrainInit ==
    /\ vision_processor \in VisionProcessors
    /\ selector_failures \in [RegistryKeys -> {0, TraumaThreshold}]
    /\ recovery_log = [k \in RegistryKeys |-> <<>>]
    /\ vision_response = NoResponse

\* "Record successful use if selector exists": if not should_heal
fallthrough(failures, key, should_heal) ==
    IF ~should_heal THEN record_success(failures, key) ELSE failures

\* recovery on the fallback detector's word alone
needs_healing_lowConfidenceOnly(confidence, should_heal) == confidence < 70

\* if (confidence < 0.7 or should_heal)
needs_healing(confidence, should_heal) == confidence < 70 \/ should_heal

\* BrainService.ProcessVision, one request
ProcessVision ==
    /\ \E rc \in RequestContexts, text_command \in TextCommands,
          confidence \in Confidences, selector_result \in SelectorResults :
         LET key == <<domain_of(rc), text_command>>
             should_heal == should_trigger_trauma_center(selector_failures, key)
             heal == needs_healing(confidence, should_heal)
                        /\ vision_processor = "VisualIntentProcessor"
             healed == /\ selector_result.kind = "result"
                       /\ selector_result.selector # ""
                       /\ selector_result.confidence > 50
             counted == record_failure(selector_failures, key)
         IN  IF text_command = ""
             THEN /\ vision_response' = [kind |-> "general", key |-> key]
                  /\ UNCHANGED <<selector_failures, recovery_log>>
             ELSE IF heal /\ healed
             THEN /\ selector_failures' = record_success(selector_failures, key)
                  /\ recovery_log' = [recovery_log EXCEPT
                                        ![key] = Logged(@, "healed")]
                  /\ vision_response' = [kind |-> "healed", key |-> key]
             ELSE IF heal /\ selector_result.kind = "result"
             THEN /\ counted[key] <= MaxFailures
                  /\ recovery_log' = [recovery_log EXCEPT
                                        ![key] = Logged(@, "failed")]
                  /\ IF counted[key] >= TraumaThreshold
                     THEN /\ selector_failures' = counted
                          /\ vision_response' = [kind |-> "critical",
                                                 key |-> key]
                     ELSE /\ selector_failures' =
                                fallthrough(counted, key, should_heal)
                          /\ vision_response' = [kind |-> "found", key |-> key]
             ELSE /\ selector_failures' =
                        fallthrough(selector_failures, key, should_heal)
                  /\ recovery_log' = [recovery_log EXCEPT
                        ![key] = Logged(@, IF heal THEN "raised" ELSE "direct")]
                  /\ vision_response' = [kind |-> "found", key |-> key]
    /\ UNCHANGED vision_processor
    /\ BrainOnly

BrainNext == ProcessVision

(***************************************************************************)
(* Browser sessions: BrowserModeScraper used as "async with"               *)
(* (scrapegoat/app/scraping/browser_mode.py) and harvest_usha_token        *)
(* (scrapegoat/app/workers/auth_worker.py)                                 *)
(***************************************************************************)
BodyExits == {"success", "failure", "timeout"}

NewScraper(user_data_dir, stealth) ==
    [pc |-> "new", user_data_dir |-> user_data_dir, stealth |-> stealth,
     playwright |-> FALSE, browser |-> FALSE, context |-> "none",
     page |-> FALSE, exit |-> "none"]

NewHarvest(credentials) ==
    [pc |-> "start", credentials |-> credentials, browser |-> FALSE,
     context |-> "none", token |-> FALSE, ret |-> "none"]

\* a context that is open becomes closed
closed(context) == IF context = "open" THEN "closed" ELSE context

BrowserParked ==
    /\ scraper = [NewScraper(FALSE, FALSE) EXCEPT !.pc = "parked"]
    /\ harvest = [NewHarvest(FALSE) EXCEPT !.pc = "parked"]

BrowserInit ==
    /\ scraper \in {NewScraper(u, s) : u \in BOOLEAN, s \in BOOLEAN}
    /\ harvest \in {NewHarvest(c) : c \in BOOLEAN}

\* start(): async_playwright().start() and chromium.launch
ScraperLaunch ==
    /\ scraper.pc = "new"
    /\ scraper' = [scraper EXCEPT !.pc = "launched", !.playwright = TRUE,
                                  !.browser = TRUE]
    /\ UNCHANGED harvest
    /\ BrowserOnly

\* start(): chromium.launch raises; __aenter__ raises
ScraperLaunchFails ==
    /\ scraper.pc = "new"
    /\ scraper' = [scraper EXCEPT !.pc = "aenter_raised", !.playwright = TRUE]
    /\ UNCHANGED harvest
    /\ BrowserOnly

\* start(): self._context = launch_persistent_context(...) or new_context(...)
ScraperNewContext ==
    /\ scraper.pc = "launched"
    /\ scraper' = [scraper EXCEPT !.pc = "context", !.context = "open"]
    /\ UNCHANGED harvest
    /\ BrowserOnly

ScraperNewContextFails ==
    /\ scraper.pc = "launched"
    /\ scraper' = [scraper EXCEPT !.pc = "aenter_raised"]
    /\ UNCHANGED harvest
    /\ BrowserOnly

\* start(): new_page, stealth patches, network interception, default timeout
ScraperSetup ==
    /\ scraper.pc = "context"
    /\ scraper' = [scraper EXCEPT !.pc = "ready", !.page = TRUE]
    /\ UNCHANGED harvest
    /\ BrowserOnly

\* start(): new_page, add_init_script or page.route raises after the context
\* was created; __aenter__ raises, so __aexit__ is not run
ScraperSetupFails ==
    /\ scraper.pc = "context"
    /\ scraper' = [scraper EXCEPT !.pc = "aenter_raised"]
    /\ UNCHANGED harvest
    /\ BrowserOnly

\* the body of the "async with" ends: normally, by an exception, by a timeout
ScraperBodyEnds ==
    /\ scraper.pc = "ready"
    /\ \E e \in BodyExits : scraper' = [scraper EXCEPT !.pc = "aexit", !.exit = e]
    /\ UNCHANGED harvest
    /\ BrowserOnly

\* __aexit__: close()
ScraperClose ==
    /\ scraper.pc = "aexit"
    /\ scraper' = [scraper EXCEPT !.pc = "closed",
                                  !.context = closed(@),
                                  !.browser = FALSE,
                                  !.playwright = FALSE,
                                  !.page = FALSE]
    /\ UNCHANGED harvest
    /\ BrowserOnly

\* harvest_usha_token: credentials missing
HarvestSkips ==
    /\ harvest.pc = "start"
    /\ ~harvest.credentials
    /\ harvest' = [harvest EXCEPT !.pc = "returned", !.ret = "False"]
    /\ UNCHANGED scraper
    /\ BrowserOnly

HarvestLaunch ==
    /\ harvest.pc = "start"
    /\ harvest.credentials
    /\ harvest' = [harvest EXCEPT !.pc = "launched", !.browser = TRUE]
    /\ UNCHANGED scraper
    /\ BrowserOnly

\* p.chromium.launch raises: except, then finally with browser = None
HarvestLaunchFails ==
    /\ harvest.pc = "start"
    /\ harvest.credentials
    /\ harvest' = [harvest EXCEPT !.pc = "finally", !.ret = "False"]
    /\ UNCHANGED scraper
    /\ BrowserOnly

HarvestNewContext ==
    /\ harvest.pc = "launched"
    /\ harvest' = [harvest EXCEPT !.pc = "login", !.context = "open"]
    /\ UNCHANGED scraper
    /\ BrowserOnly

HarvestNewContextFails ==
    /\ harvest.pc = "launched"
    /\ harvest' = [harvest EXCEPT !.pc = "finally", !.ret = "False"]
    /\ UNCHANGED scraper
    /\ BrowserOnly

\* new_page and the loop over the login URLs: a token is found or not
\* (navigation timeouts are caught per URL), or an exception escapes
HarvestLogin ==
    /\ harvest.pc = "login"
    /\ \E outcome \in {"token", "no_token", "error"} :
         harvest' = [harvest EXCEPT
            !.pc = IF outcome = "token" THEN "store" ELSE "finally",
            !.token = (outcome = "token"),
            !.ret = IF outcome = "token" THEN "none" ELSE "False"]
    /\ UNCHANGED scraper
    /\ BrowserOnly

\* r.setex("auth:usha:token", ...): return True, or False when it raises
HarvestStore ==
    /\ harvest.pc = "store"
    /\ \E stored \in BOOLEAN :
         harvest' = [harvest EXCEPT !.pc = "finally",
                        !.ret = IF stored THEN "True" ELSE "False"]
    /\ UNCHANGED scraper
    /\ BrowserOnly

\* finally: if browser: browser.close(), which closes its contexts
HarvestFinally ==
    /\ harvest.pc = "finally"
    /\ harvest' = [harvest EXCEPT !.pc = "returned",
                      !.browser = FALSE,
                      !.context = IF harvest.browser THEN closed(@) ELSE @]
    /\ UNCHANGED scraper
    /\ BrowserOnly

BrowserNext ==
    \/ ScraperLaunch
    \/ ScraperLaunchFails
    \/ ScraperNewContext
    \/ ScraperNewContextFails
    \/ ScraperSetup
    \/ ScraperSetupFails
    \/ ScraperBodyEnds
    \/ ScraperClose
    \/ HarvestSkips
    \/ HarvestLaunch
    \/ HarvestLaunchFails
    \/ HarvestNewContext
    \/ HarvestNewContextFails
    \/ HarvestLogin
    \/ HarvestStore
    \/ HarvestFinally

(***************************************************************************)
(* A failover sequence for one lead: select_provider, then                 *)
(* get_next_provider until it returns None, the caller adding every        *)
(* returned provider to its tried set (pipeline/router.py)                 *)
(***************************************************************************)
\* get_next_provider that looks at failed_provider only, not at tried
get_next_provider_ignoresTried(failed_provider, tried, bl, up) ==
    LET c == candidates({failed_provider}, bl, up)
    IN  IF Len(c) > 0 THEN c[1] ELSE NoProvider

\* the provider get_next_provider hands to the caller
next_in_failover(failed_provider, tried, bl, up) ==
    get_next_provider(failed_provider, tried, bl, up)

NoFailover == [pc |-> "parked", tried |-> {}, returned |-> <<>>]

FailoverParked == failover = NoFailover

FailoverInit == failover = [pc |-> "select", tried |-> {}, returned |-> <<>>]

\* provider = select_provider(lead, tried=set()); tried.add(provider)
FailoverSelect ==
    /\ failover.pc = "select"
    /\ \E state \in States \cup {NoState},
          preferred \in Providers \cup {NoProvider}, up \in BOOLEAN :
         \E r \in select_provider(state, {}, preferred, blacklisted, up,
                                  stats, state_stats) :
            failover' = [pc |-> "next", tried |-> {r.ret},
                         returned |-> <<r.ret>>]
    /\ UNCHANGED rvars
    /\ FailoverOnly

\* provider = get_next_provider(provider, tried); tried.add(provider)
FailoverNext ==
    /\ failover.pc = "next"
    /\ \E up \in BOOLEAN :
         LET failed == failover.returned[Len(failover.returned)]
             p == next_in_failover(failed, failover.tried, blacklisted, up)
         IN  /\ p # NoProvider
             /\ failover' = [failover EXCEPT
                               !.tried = @ \cup {p},
                               !.returned = Append(@, p)]
    /\ UNCHANGED rvars
    /\ FailoverOnly

\* get_next_provider returns None: the sequence is over
FailoverEnds ==
    /\ failover.pc = "next"
    /\ \E up \in BOOLEAN :
         LET failed == failover.returned[Len(failover.returned)]
         IN  next_in_failover(failed, failover.tried, blacklisted, up)
                = NoProvider
    /\ failover' = [failover EXCEPT !.pc = "done"]
    /\ UNCHANGED rvars
    /\ FailoverOnly

FailoverNextStep ==
    \/ Blacklist
    \/ FailoverSelect
    \/ FailoverNext
    \/ FailoverEnds

(***************************************************************************)
(* Database connections: allocate_hardware_entropy with the pool of        *)
(* chimera-core/db_bridge.py, and save_to_database with the connection it  *)
(* opens itself (scrapegoat/app/enrichment/database.py).                   *)
(***************************************************************************)
\* the calls that are followed
MaxConnCalls == 4

\* between calls: the value the last call returned and the path it took
ConnIdle(result, via) ==
    [fn |-> "none", pc |-> "idle", result |-> result, via |-> via]
ConnAt(fn, at, result) ==
    [fn |-> fn, pc |-> at, result |-> result, via |-> "none"]

ConnParked ==
    /\ conn_call = ConnIdle("none", "none")
    /\ pool_out = 0
    /\ direct_open = 0
    /\ conn_calls = 0

ConnInit == ConnParked

ConnCanCall == conn_call.pc = "idle" /\ conn_calls < MaxConnCalls

ConnReturns(result, via) ==
    /\ conn_call' = ConnIdle(result, via)
    /\ conn_calls' = conn_calls + 1

\* conn = get_db_connection(); if not conn: return None
\* (no DATABASE_URL, no pool, or getconn raises)
AllocNoConnection ==
    /\ ConnCanCall
    /\ ConnReturns("None", "no_connection")
    /\ UNCHANGED <<pool_out, direct_open>>
    /\ ConnOnly

\* conn = pool.getconn()
AllocGetConnection ==
    /\ ConnCanCall
    /\ conn_call' = ConnAt("allocate_hardware_entropy", "try", "none")
    /\ pool_out' = pool_out + 1
    /\ UNCHANGED <<direct_open, conn_calls>>
    /\ ConnOnly

\* the table check, the INSERT and the commit succeed;
\* return_db_connection(conn) is reached in the try block
AllocInserted ==
    /\ conn_call.fn = "allocate_hardware_entropy"
    /\ conn_call.pc = "try"
    /\ conn_call' = ConnAt("allocate_hardware_entropy", "return_conn", "seeds")
    /\ UNCHANGED <<pool_out, direct_open, conn_calls>>
    /\ ConnOnly

\* the query raises: except Exception -> rollback (its own failure is
\* swallowed) -> return_db_connection(conn)
AllocRaises ==
    /\ conn_call.fn = "allocate_hardware_entropy"
    /\ conn_call.pc = "try"
    /\ conn_call' = ConnAt("allocate_hardware_entropy", "return_conn", "None")
    /\ UNCHANGED <<pool_out, direct_open, conn_calls>>
    /\ ConnOnly

\* return_db_connection: pool.putconn(conn); when putconn raises, conn.close()
\* with its own failure swallowed.  Either way the connection is given up.
return_db_connection(out) == out - 1

ReturnDbConnection ==
    /\ conn_call.pc = "return_conn"
    /\ pool_out' = return_db_connection(pool_out)
    /\ \E how \in {"putconn", "close"} : ConnReturns(conn_call.result, how)
    /\ UNCHANGED direct_open
    /\ ConnOnly

\* save_to_database: if not DATABASE_URL: return False
SaveNoDatabaseUrl ==
    /\ ConnCanCall
    /\ ConnReturns("False", "no_database_url")
    /\ UNCHANGED <<pool_out, direct_open>>
    /\ ConnOnly

\* psycopg2.connect(DATABASE_URL) raises: except Exception -> return False
SaveConnectRaises ==
    /\ ConnCanCall
    /\ ConnReturns("False", "connect_raised")
    /\ UNCHANGED <<pool_out, direct_open>>
    /\ ConnOnly

\* conn = psycopg2.connect(DATABASE_URL)
SaveConnect ==
    /\ ConnCanCall
    /\ conn_call' = ConnAt("save_to_database", "try", "none")
    /\ direct_open' = direct_open + 1
    /\ UNCHANGED <<pool_out, conn_calls>>
    /\ ConnOnly

\* the upsert and the commit succeed: cur.close(); conn.close(); return True
SaveCommitted ==
    /\ conn_call.fn = "save_to_database"
    /\ conn_call.pc = "try"
    /\ direct_open' = direct_open - 1
    /\ ConnReturns("True", "committed")
    /\ UNCHANGED pool_out
    /\ ConnOnly

\* except psycopg2.IntegrityError: return True.  Nothing closes conn.
SaveIntegrityError ==
    /\ conn_call.fn = "save_to_database"
    /\ conn_call.pc = "try"
    /\ ConnReturns("True", "IntegrityError")
    /\ UNCHANGED <<pool_out, direct_open>>
    /\ ConnOnly

\* except Exception: traceback; return False.  Nothing closes conn.
SaveRaises ==
    /\ conn_call.fn = "save_to_database"
    /\ conn_call.pc = "try"
    /\ ConnReturns("False", "Exception")
    /\ UNCHANGED <<pool_out, direct_open>>
    /\ ConnOnly

ConnNext ==
    \/ AllocNoConnection
    \/ AllocGetConnection
    \/ AllocInserted
    \/ AllocRaises
    \/ ReturnDbConnection
    \/ SaveNoDatabaseUrl
    \/ SaveConnectRaises
    \/ SaveConnect
    \/ SaveCommitted
    \/ SaveIntegrityError
    \/ SaveRaises

(***************************************************************************)
(* The spider worker (scrapegoat/app/workers/spider_worker.py).  One pass   *)
(* of the "while True" loop of start_worker is one action.                 *)
(***************************************************************************)
\* the queue holds at most this many jobs at the start
MaxJobs == 3

\* what a popped job is: text that is not JSON; JSON that is not an object;
\* an object without spider_id; a spider_id with no spider file; a spider
\* whose run raises; a spider that completes
JobKinds ==
    {"invalid_json", "not_an_object", "no_spider_id", "missing_spider",
     "spider_raises", "completes"}

\* the exception the loop body raises for a job, "none" when it raises none
job_exception(job) ==
    CASE job = "invalid_json"   -> "JSONDecodeError"
      [] job = "not_an_object"  -> "AttributeError"
      [] job = "missing_spider" -> "FileNotFoundError"
      [] job = "spider_raises"  -> "Exception"
      [] OTHER                  -> "none"

\* subclasses of Exception, as opposed to KeyboardInterrupt
ExceptionClasses ==
    {"JSONDecodeError", "AttributeError", "FileNotFoundError", "Exception",
     "ConnectionError"}

\* without the "except Exception" handlers only the JSON error is caught
worker_after_uncaught(exc) ==
    IF exc \in {"none", "JSONDecodeError"} THEN "brpop" ELSE "stopped"

\* where the loop of start_worker is after its body raised exc: every
\* subclass of Exception is caught and logged, KeyboardInterrupt breaks
worker_after(exc) ==
    IF exc = "none" \/ exc \in ExceptionClasses THEN "brpop" ELSE "stopped"

SpiderAt(at, last) == [pc |-> at, last |-> last]

SpiderParked ==
    /\ spider_jobs = <<>>
    /\ spider_worker = SpiderAt("parked", "none")
    /\ spider_log = <<>>

SpiderInit ==
    /\ spider_jobs \in UNION {[1..n -> JobKinds] : n \in 0..MaxJobs}
    /\ spider_worker = SpiderAt("brpop", "none")
    /\ spider_log = <<>>

SpiderPolling == spider_worker.pc = "brpop"

\* one job is popped and handled; outcome is the log line it ends with
SpiderHandles(job, outcome) ==
    /\ spider_jobs # <<>>
    /\ Head(spider_jobs) = job
    /\ spider_jobs' = Tail(spider_jobs)
    /\ spider_worker' = SpiderAt(worker_after(job_exception(job)), outcome)
    /\ spider_log' = Append(spider_log, [job |-> job, outcome |-> outcome])
    /\ SpiderOnly

\* result = brpop(..., timeout=10); if result is None: continue
BrpopTimeout ==
    /\ SpiderPolling
    /\ spider_jobs = <<>>
    /\ spider_worker' = SpiderAt(worker_after("none"), "timeout")
    /\ UNCHANGED <<spider_jobs, spider_log>>
    /\ SpiderOnly

\* except json.JSONDecodeError: "Invalid JSON in job"
JobInvalidJson ==
    /\ SpiderPolling
    /\ SpiderHandles("invalid_json", "Invalid JSON in job")

\* job_data.get raises outside run_spider_job's try;
\* start_worker: except Exception: "Job processing error"
JobProcessingError ==
    /\ SpiderPolling
    /\ SpiderHandles("not_an_object", "Job processing error")

\* run_spider_job: if not spider_id: "Job missing spider_id"; return
JobMissingSpiderId ==
    /\ SpiderPolling
    /\ SpiderHandles("no_spider_id", "Job missing spider_id")

\* run_spider_job: except FileNotFoundError
JobSpiderNotFound ==
    /\ SpiderPolling
    /\ SpiderHandles("missing_spider", "Spider file not found")

\* run_spider_job: except Exception: "Job failed"
JobFailed ==
    /\ SpiderPolling
    /\ SpiderHandles("spider_raises", "Job failed")

\* run_spider_job: "Job complete"
JobComplete ==
    /\ SpiderPolling
    /\ SpiderHandles("completes", "Job complete")

\* except redis.ConnectionError: sleep(5); redis_client = get_redis_client()
RedisConnectionLost ==
    /\ SpiderPolling
    /\ spider_worker.last # "Redis connection lost"
    /\ spider_worker' =
          SpiderAt(worker_after("ConnectionError"), "Redis connection lost")
    /\ UNCHANGED <<spider_jobs, spider_log>>
    /\ SpiderOnly

\* except KeyboardInterrupt: break
WorkerInterrupted ==
    /\ SpiderPolling
    /\ spider_worker' =
          SpiderAt(worker_after("KeyboardInterrupt"), "Shutting down")
    /\ UNCHANGED <<spider_jobs, spider_log>>
    /\ SpiderOnly

SpiderNext ==
    \/ BrpopTimeout
    \/ JobInvalidJson
    \/ JobProcessingError
    \/ JobMissingSpiderId
    \/ JobSpiderNotFound
    \/ JobFailed
    \/ JobComplete
    \/ RedisConnectionLost
    \/ WorkerInterrupted

(***************************************************************************)
(* The cookie store (scrapegoat/app/scraping/cookie_store.py), for one     *)
(* platform.  Time is counted in ticks of six hours; every Redis command   *)
(* is one step, and a call takes far less than a tick.  is_fresh may be    *)
(* asked by any worker at any moment: the store is shared through Redis.   *)
(***************************************************************************)
\* the clock is followed up to this tick
MaxClock == 5

\* ttl arguments of set_cookies: six hours, and the default COOKIE_TTL (24 h)
Ttls == {1, 4}
\* max_age_hours arguments of is_fresh: the default 6.0, and 24
MaxAges == {1, 4}

NoKey == [present |-> FALSE, written_at |-> 0, expires |-> 0]
\* SETEX key ttl value, at the time now
setex(now, ttl) == [present |-> TRUE, written_at |-> now, expires |-> now + ttl]
\* GET: a key that was deleted or whose ttl has passed is not there
live(key, now) == key.present /\ now < key.expires

\* is_fresh: the metadata is there and refreshed_at is younger than max_age
is_fresh(meta, now, max_age) ==
    live(meta, now) /\ now - meta.written_at < max_age

CookieIdle(last) == [pc |-> "idle", ttl |-> 0, last |-> last]
NotAsked == [asked |-> FALSE, value |-> FALSE, cookies_stored |-> FALSE]

CookieParked ==
    /\ cookie_now = 0
    /\ cookie_key = NoKey
    /\ meta_key = NoKey
    /\ cookie_op = CookieIdle("parked")
    /\ fresh = NotAsked

CookieInit ==
    /\ cookie_now = 0
    /\ cookie_key = NoKey
    /\ meta_key = NoKey
    /\ cookie_op = CookieIdle("none")
    /\ fresh = NotAsked

CookieCanCall == cookie_op.pc = "idle" /\ cookie_op.last # "parked"

\* time passes between calls
CookieTick ==
    /\ CookieCanCall
    /\ cookie_now < MaxClock
    /\ cookie_now' = cookie_now + 1
    /\ UNCHANGED <<cookie_key, meta_key, cookie_op, fresh>>
    /\ CookieOnly

\* set_cookies: client.setex(cookie_key, ttl, json.dumps(cookies))
SetCookiesCookieKey ==
    /\ CookieCanCall
    /\ \E ttl \in Ttls :
         /\ cookie_key' = setex(cookie_now, ttl)
         /\ cookie_op' = [pc |-> "set_meta", ttl |-> ttl, last |-> "none"]
    /\ UNCHANGED <<cookie_now, meta_key, fresh>>
    /\ CookieOnly

\* set_cookies: _get_client or the first setex raises; return False
SetCookiesFails ==
    /\ CookieCanCall
    /\ cookie_op' = CookieIdle("set_failed")
    /\ UNCHANGED <<cookie_now, cookie_key, meta_key, fresh>>
    /\ CookieOnly

\* set_cookies: client.setex(meta_key, ttl, json.dumps(meta)); return True
SetCookiesMetaKey ==
    /\ cookie_op.pc = "set_meta"
    /\ meta_key' = setex(cookie_now, cookie_op.ttl)
    /\ cookie_op' = CookieIdle("set")
    /\ UNCHANGED <<cookie_now, cookie_key, fresh>>
    /\ CookieOnly

\* set_cookies: the second setex raises; return False
SetCookiesMetaFails ==
    /\ cookie_op.pc = "set_meta"
    /\ cookie_op' = CookieIdle("set_meta_failed")
    /\ UNCHANGED <<cookie_now, cookie_key, meta_key, fresh>>
    /\ CookieOnly

\* delete_cookies: client.delete(cookie_key)
DeleteCookiesCookieKey ==
    /\ CookieCanCall
    /\ cookie_key' = NoKey
    /\ cookie_op' = [pc |-> "delete_meta", ttl |-> 0, last |-> "none"]
    /\ UNCHANGED <<cookie_now, meta_key, fresh>>
    /\ CookieOnly

\* delete_cookies: client.delete(meta_key); return True
DeleteCookiesMetaKey ==
    /\ cookie_op.pc = "delete_meta"
    /\ meta_key' = NoKey
    /\ cookie_op' = CookieIdle("deleted")
    /\ UNCHANGED <<cookie_now, cookie_key, fresh>>
    /\ CookieOnly

\* delete_cookies: the second delete raises; return False
DeleteCookiesMetaFails ==
    /\ cookie_op.pc = "delete_meta"
    /\ cookie_op' = CookieIdle("delete_meta_failed")
    /\ UNCHANGED <<cookie_now, cookie_key, meta_key, fresh>>
    /\ CookieOnly

\* is_fresh(platform, max_age_hours), remembered with whether the cookie
\* entry was there when it answered
IsFresh ==
    /\ cookie_op.last # "parked"
    /\ \E max_age \in MaxAges :
         fresh' = [asked |-> TRUE,
                   value |-> is_fresh(meta_key, cookie_now, max_age),
                   cookies_stored |-> live(cookie_key, cookie_now)]
    /\ UNCHANGED <<cookie_now, cookie_key, meta_key, cookie_op>>
    /\ CookieOnly

CookieNext ==
    \/ CookieTick
    \/ SetCookiesCookieKey
    \/ SetCookiesFails
    \/ SetCookiesMetaKey
    \/ SetCookiesMetaFails
    \/ DeleteCookiesCookieKey
    \/ DeleteCookiesMetaKey
    \/ DeleteCookiesMetaFails
    \/ IsFresh

EnrichmentParked ==
    /\ PipelineParked /\ RouterParked /\ MissionParked /\ StatsParked
    /\ EngineParked /\ ReconcileParked /\ DatabaseParked

WorkerSideParked ==
    /\ BlueprintParked /\ CaptchaParked /\ HiveParked /\ BrainParked
    /\ BrowserParked /\ FailoverParked /\ ConnParked /\ SpiderParked
    /\ CookieParked

RouterSpecInit ==
    RouterInit /\ PipelineParked /\ MissionParked /\ StatsParked /\ EngineParked
    /\ ReconcileParked /\ DatabaseParked /\ WorkerSideParked

SpecRouter == RouterSpecInit /\ [][RouterNext]_vars

PipelineSpecInit ==
    PipelineInit /\ RouterParked /\ MissionParked /\ StatsParked /\ EngineParked
    /\ ReconcileParked /\ DatabaseParked /\ WorkerSideParked

SpecPipeline == PipelineSpecInit /\ [][PipelineNext]_vars

MissionSpecInit ==
    MissionInit /\ PipelineParked /\ RouterParked /\ StatsParked /\ EngineParked
    /\ ReconcileParked /\ DatabaseParked /\ WorkerSideParked

SpecMission == MissionSpecInit /\ [][MissionNext]_vars

StatsSpecInit ==
    StatsInit /\ PipelineParked /\ MissionParked /\ EngineParked
    /\ ReconcileParked /\ DatabaseParked /\ WorkerSideParked

SpecStats == StatsSpecInit /\ [][StatsNext]_vars

EngineSpecInit ==
    EngineInit /\ PipelineParked /\ RouterParked /\ MissionParked /\ StatsParked
    /\ ReconcileParked /\ DatabaseParked /\ WorkerSideParked

SpecReentrant == EngineSpecInit /\ [][EngineNext]_vars

ReconcileSpecInit ==
    ReconcileInit /\ PipelineParked /\ RouterParked /\ MissionParked
    /\ StatsParked /\ EngineParked /\ DatabaseParked /\ WorkerSideParked

SpecReconcile == ReconcileSpecInit /\ [][ReconcileNext]_vars

DatabaseSpecInit ==
    DatabaseInit /\ PipelineParked /\ RouterParked /\ MissionParked
    /\ StatsParked /\ EngineParked /\ ReconcileParked /\ WorkerSideParked

SpecDatabase == DatabaseSpecInit /\ [][DatabaseNext]_vars

BlueprintSpecInit ==
    BlueprintInit /\ EnrichmentParked /\ CaptchaParked /\ HiveParked
    /\ BrainParked /\ BrowserParked /\ FailoverParked /\ ConnParked
    /\ SpiderParked /\ CookieParked

SpecBlueprint == BlueprintSpecInit /\ [][BlueprintNext]_vars

CaptchaSpecInit ==
    CaptchaInit /\ EnrichmentParked /\ BlueprintParked /\ HiveParked
    /\ BrainParked /\ BrowserParked /\ FailoverParked /\ ConnParked
    /\ SpiderParked /\ CookieParked

SpecCaptcha == CaptchaSpecInit /\ [][CaptchaNext]_vars

HiveSpecInit ==
    HiveInit /\ EnrichmentParked /\ BlueprintParked /\ CaptchaParked
    /\ BrainParked /\ BrowserParked /\ FailoverParked /\ ConnParked
    /\ SpiderParked /\ CookieParked

SpecHive == HiveSpecInit /\ [][HiveNext]_vars

BrainSpecInit ==
    BrainInit /\ EnrichmentParked /\ BlueprintParked /\ CaptchaParked
    /\ HiveParked /\ BrowserParked /\ FailoverParked /\ ConnParked
    /\ SpiderParked /\ CookieParked

SpecBrain == BrainSpecInit /\ [][BrainNext]_vars

BrowserSpecInit ==
    BrowserInit /\ EnrichmentParked /\ BlueprintParked /\ CaptchaParked
    /\ HiveParked /\ BrainParked /\ FailoverParked /\ ConnParked
    /\ SpiderParked /\ CookieParked

SpecBrowser == BrowserSpecInit /\ [][BrowserNext]_vars

FailoverSpecInit ==
    FailoverInit /\ RouterInit /\ PipelineParked /\ MissionParked
    /\ StatsParked /\ EngineParked /\ ReconcileParked /\ DatabaseParked
    /\ BlueprintParked /\ CaptchaParked /\ HiveParked /\ BrainParked
    /\ BrowserParked /\ ConnParked /\ SpiderParked /\ CookieParked

SpecFailover == FailoverSpecInit /\ [][FailoverNextStep]_vars

ConnSpecInit ==
    ConnInit /\ EnrichmentParked /\ BlueprintParked /\ CaptchaParked
    /\ HiveParked /\ BrainParked /\ BrowserParked /\ FailoverParked
    /\ SpiderParked /\ CookieParked

SpecConn == ConnSpecInit /\ [][ConnNext]_vars

SpiderSpecInit ==
    SpiderInit /\ EnrichmentParked /\ BlueprintParked /\ CaptchaParked
    /\ HiveParked /\ BrainParked /\ BrowserParked /\ FailoverParked
    /\ ConnParked /\ CookieParked

SpecSpider == SpiderSpecInit /\ [][SpiderNext]_vars

CookieSpecInit ==
    CookieInit /\ EnrichmentParked /\ BlueprintParked /\ CaptchaParked
    /\ HiveParked /\ BrainParked /\ BrowserParked /\ FailoverParked
    /\ ConnParked /\ SpiderParked

SpecCookie == CookieSpecInit /\ [][CookieNext]_vars

(***************************************************************************)
(* Properties of the pipeline engine                                       *)
(***************************************************************************)
Max(S) == IF S = {} THEN 0 ELSE CHOOSE m \in S : \A x \in S : x <= m

MaxCostEstimate == Max({cost_estimate(route[i]) : i \in 1..Len(route)})

LastStep == steps[Len(steps)]

\* the step being taken called station.process
InvokedNow == Len(calls') = Len(calls) + 1

\* C1: in every run the running cost never decreases from one station to
\* the next and never exceeds the budget plus the largest cost_estimate of
\* the route.
C1_RunningCostBounded ==
    /\ [](total_cost <= budget_limit + MaxCostEstimate)
    /\ [][total_cost' >= total_cost]_vars

\* C2: station.process is invoked only when every required input is in the
\* context's available fields at that moment; with a required input missing
\* the station is not invoked.
C2_RequiredInputsPresent ==
    /\ [](\A k \in 1..Len(calls) :
            required_inputs(calls[k].station) \subseteq calls[k].avail)
    /\ [][(pc = "loop"
           /\ ~(required_inputs(route[idx]) \subseteq available_fields(data)))
          => calls' = calls]_vars

C2_Witness ==
    \E c \in 1..Len(calls), k \in 1..Len(steps) :
        /\ required_inputs(calls[c].station) # {}
        /\ k < calls[c].idx
        /\ steps[k].condition = FAIL
        /\ \A c2 \in 1..Len(calls) : calls[c2].idx # k

\* C3: once a station returns SKIP_REMAINING the loop ends: that step is the
\* last one of the run and no station later in the route is invoked.
C3_SkipRemainingEndsRun ==
    \A k \in 1..Len(steps) :
        steps[k].condition = SKIP_REMAINING
        => /\ k = Len(steps)
           /\ pc \in {"finish", "done"}
           /\ \A c \in 1..Len(calls) : calls[c].idx <= k

C3_Witness ==
    /\ pc = "done"
    /\ Len(steps) = 4 /\ Len(route) = 6
    /\ LastStep.station = "DNCGatekeeperStation"
    /\ LastStep.condition = SKIP_REMAINING
    /\ data["can_contact"] = False
    /\ calls[Len(calls)].station = "DNCGatekeeperStation"

\* C4: a station that returns FAIL or raises never ends the run: the next
\* station of the route is still attempted, and the run ends before the end
\* of the route only on SKIP_REMAINING.
C4_FailureNeverEndsRun ==
    /\ \A k \in 1..Len(steps) :
          (steps[k].condition = FAIL /\ k < Len(route))
          => (Len(steps) > k \/ (pc = "loop" /\ idx = k + 1))
    /\ (pc \in {"finish", "done"} /\ Len(steps) < Len(route))
          => (Len(steps) > 0 /\ LastStep.condition = SKIP_REMAINING)

C4_Witness ==
    /\ pc = "done"
    /\ \E k \in 1..Len(steps) : steps[k].error /\ k < Len(steps)
    /\ \E k \in 1..Len(steps) :
          ~steps[k].error /\ steps[k].condition = FAIL /\ k < Len(steps)

\* C5 (as stated): a station reached with running cost + cost_estimate above
\* the budget is not invoked and the run stops there.
C5_OverBudgetStopsRun ==
    [][(pc = "loop"
        /\ total_cost + cost_estimate(route[idx]) > budget_limit)
       => (calls' = calls /\ pc' = "finish")]_vars

\* C5 (amended): a station whose required inputs are all present and that is
\* reached with running cost + cost_estimate above the budget is not invoked
\* and the run stops there, with no later station invoked; a station reached
\* over budget is never invoked.
C5_OverBudgetStopsRunWhenRunnable ==
    [][(pc = "loop"
        /\ total_cost + cost_estimate(route[idx]) > budget_limit)
       => /\ calls' = calls
          /\ (required_inputs(route[idx]) \subseteq available_fields(data))
               => (pc' = "finish" /\ idx' = idx
                   /\ steps'[Len(steps')].condition = SKIP_REMAINING)]_vars

C5_Witness ==
    /\ pc = "done"
    /\ Len(steps) > 0 /\ Len(steps) < Len(route)
    /\ LastStep.condition = SKIP_REMAINING
    /\ required_inputs(LastStep.station) # {}
    /\ \A c \in 1..Len(calls) : calls[c].idx < Len(steps)

\* C6: when a station has been invoked and then fails (returns FAIL or
\* raises), its cost_estimate is still added to the running cost.
C6_CostDebitedOnFailure ==
    [][(pc = "loop" /\ InvokedNow /\ steps'[Len(steps')].condition = FAIL)
       => total_cost' = total_cost + cost_estimate(route[idx])]_vars

\* C7: after a station that ran and returned CONTINUE has been merged, every
\* field of its produces_outputs is in the context's available fields.
C7_OutputsPresentAfterContinue ==
    [][(pc = "loop" /\ InvokedNow /\ steps'[Len(steps')].condition = CONTINUE)
       => produces_outputs(route[idx]) \subseteq available_fields(data')]_vars

BlacklistedAtCall(p) == is_blacklisted(p, blacklisted, rcall.up)

\* magazine - tried_set - blacklisted for the select call that has returned
Eligible == {p \in Providers : p \notin rcall.tried /\ ~BlacklistedAtCall(p)}

\* C9: neither select nor next ever returns a provider that is blacklisted
\* at the time of the call.
C9_NeverReturnsBlacklisted ==
    (rcall.op \in {"select", "next"} /\ rcall.ret # NoProvider)
        => ~BlacklistedAtCall(rcall.ret)

MagIndex(p) == CHOOSE i \in 1..Len(MAGAZINE) : MAGAZINE[i] = p

\* providers get_next_provider may still hand out for the call that has
\* returned: not tried, not the failed one, not blacklisted
NextEligible ==
    {p \in Providers : p \notin (rcall.tried \cup {rcall.failed})
                       /\ ~BlacklistedAtCall(p)}

NoStationMetadata ==
    /\ final_data.cost = 0
    /\ final_data.stations_executed = 0
    /\ final_data.errors = 0

\* C16 as stated: a run with an empty station list returns exactly the
\* initial lead's fields with the pipeline metadata appended; no other field
\* is added or changed.
C16_EmptyRouteReturnsInitialLead ==
    (pc = "done" /\ route = << >>)
        => (final_data.data = initial_data /\ NoStationMetadata)

\* the lead carries a name under one of the alias keys
HasNameAlias(d) ==
    \E k \in AliasFields \cup {"firstName", "lastName"} : Truthy(d[k])

\* C16 amended: a run with an empty station list returns the initial lead's
\* fields with the pipeline metadata appended; the only field that may
\* differ is name, which is filled in when the lead has no name of its own
\* but carries one under an alias key.
C16_EmptyRouteReturnsNormalizedLead ==
    (pc = "done" /\ route = << >>)
        => /\ NoStationMetadata
           /\ \A f \in Fields \ {"name"} : final_data.data[f] = initial_data[f]
           /\ IF ~Truthy(initial_data["name"]) /\ HasNameAlias(initial_data)
                THEN Truthy(final_data.data["name"])
                ELSE final_data.data["name"] = initial_data["name"]

C16_Witness ==
    /\ pc = "done" /\ route = << >>
    /\ Truthy(initial_data["fullName"])
    /\ initial_data["name"] = Absent
    /\ final_data.data["name"] = V

\* the validation the gatekeep has just merged calls the phone invalid,
\* VOIP, landline or junk
PhoneRejectable(d) ==
    \/ d["is_valid"] = False
    \/ d["is_voip"] = True
    \/ d["is_landline"] = True
    \/ d["is_junk"] = True

\* C17: the Phone Gatekeep station returns SKIP_REMAINING whenever the
\* validation result says the phone is invalid, VOIP, landline, or on the
\* junk-carrier list.
C17_GatekeepSkipsRejectablePhone ==
    [][(/\ pc = "loop"
        /\ route[idx] = "TelnyxGatekeepStation"
        /\ InvokedNow
        /\ Len(steps') = Len(steps) + 1
        /\ ~steps'[Len(steps')].error
        /\ PhoneRejectable(data'))
       => steps'[Len(steps')].condition = SKIP_REMAINING]_vars

(***************************************************************************)
(* Properties of the statistics counters                                   *)
(***************************************************************************)
\* record_result(success=True) calls for p that have not yet reached their
\* increment of success_count
PendingSuccess(p) ==
    Cardinality({w \in Recorders : /\ recorder[w].pc = "outcome"
                                   /\ recorder[w].args.success
                                   /\ recorder[w].args.provider = p})

\* C11: every record_result call with success=true increases that
\* provider's success_count by exactly 1, so N such calls, in any
\* interleaving across workers, increase it by exactly N.
C11_SuccessCountedOncePerCall ==
    /\ [](\A p \in Providers :
            stats[p].success_count = success_calls[p] - PendingSuccess(p))
    /\ [][\A w \in Recorders :
            (recorder[w].pc = "outcome" /\ recorder'[w].pc # "outcome")
              => LET a == recorder[w].args
                 IN  stats'[a.provider].success_count
                       = stats[a.provider].success_count
                           + (IF a.success THEN 1 ELSE 0)]_vars

C11_Witness ==
    /\ stats["TruePeopleSearch"].success_count = 2
    /\ success_calls["TruePeopleSearch"] = 2
    /\ \A w \in Recorders : recorder[w].pc = "latency"

\* C12: every provider-statistics counter, per provider, per (provider,
\* state), per (provider, datatype) and per (domain, carrier), never
\* decreases, under any interleaving of recording calls.
C12_CountersNeverDecrease ==
    [][/\ \A p \in Providers :
            /\ stats'[p].success_count >= stats[p].success_count
            /\ stats'[p].failure_count >= stats[p].failure_count
            /\ stats'[p].captcha_count >= stats[p].captcha_count
            /\ stats'[p].total_latency_ms >= stats[p].total_latency_ms
       /\ \A st \in States, p \in Providers :
            /\ state_stats'[st][p].success_count >= state_stats[st][p].success_count
            /\ state_stats'[st][p].failure_count >= state_stats[st][p].failure_count
       /\ \A dt \in DataTypes, p \in Providers :
            /\ datatype_stats'[dt][p].count >= datatype_stats[dt][p].count
            /\ datatype_stats'[dt][p].total_latency_ms
                  >= datatype_stats[dt][p].total_latency_ms
       /\ \A d \in DomainKeys, c \in CarrierKeys :
            /\ carrier_health'[d][c].s >= carrier_health[d][c].s
            /\ carrier_health'[d][c].f >= carrier_health[d][c].f]_vars

(***************************************************************************)
(* Properties of concurrent runs                                           *)
(***************************************************************************)
\* the context of run r
CtxOf(r) == ctx_heap[run[r].ctx]

\* C15: two concurrent runs of the same engine on different leads are
\* isolated: each run has a context of its own, a step of one run leaves the
\* fields, running cost, history and error list of the other run as they
\* were, and a run's history and error list hold its own steps only.
C15_RunsAreIsolated ==
    /\ [](\A r, q \in Runs :
            (r # q /\ run[r].ctx # NoCtx /\ run[q].ctx # NoCtx)
              => run[r].ctx # run[q].ctx)
    /\ [](\A r \in Runs :
            run[r].ctx # NoCtx
              => /\ Len(CtxOf(r).history) = run[r].returned
                 /\ Len(CtxOf(r).errors) = run[r].raised)
    /\ [][\A r \in Runs :
            (run[r].ctx # NoCtx /\ run'[r] = run[r])
              => ctx_heap'[run[r].ctx] = ctx_heap[run[r].ctx]]_vars

C15_Witness ==
    /\ \A r \in Runs : run[r].pc = "loop" /\ run[r].idx = 2
    /\ CtxOf(1).data # CtxOf(2).data
    /\ CtxOf(1).total_cost # CtxOf(2).total_cost
    /\ Len(CtxOf(1).errors) # Len(CtxOf(2).errors)

(***************************************************************************)
(* Properties of the reconciler                                            *)
(***************************************************************************)
\* the weight of the provider of record k: its success rate, 0.5 when the
\* weights know nothing of it
WeightOfRecord(k) ==
    LET w == get_weights(rank_src, site_data)[site_data[k].provider]
    IN  IF w = NoWeight THEN 500 ELSE w

\* records that offer a non-null value for field f
Offers(f) == {k \in 1..Len(site_data) : non_null(site_data[k][f])}

\* C18: for each reserved field, the golden record takes the non-null value
\* offered by the provider with the highest weight, and when weights tie,
\* by the provider listed first; a null value is never chosen over a
\* non-null one.
C18_HighestWeightWins ==
    golden # NotReconciled =>
      \A f \in ReservedFields :
         IF Offers(f) = {}
           THEN golden[f] = Absent
           ELSE \E k \in Offers(f) :
                  /\ golden[f] = site_data[k][f]
                  /\ \A j \in Offers(f) :
                        \/ WeightOfRecord(j) < WeightOfRecord(k)
                        \/ (WeightOfRecord(j) = WeightOfRecord(k) /\ k <= j)

C18_Witness ==
    /\ golden # NotReconciled
    /\ Len(site_data) = 2
    /\ site_data[1].provider = "FastPeopleSearch" /\ site_data[1].phone = "p1"
    /\ site_data[2].provider = "TruePeopleSearch" /\ site_data[2].phone = "p2"
    /\ WeightOfRecord(1) < WeightOfRecord(2)
    /\ golden.phone = "p2"

\* records whose provider weighs at least 0.5 and that offer a non-null
\* value for the extra field f
Carriers(f) ==
    {k \in Offers(f) : WeightOfRecord(k) >= 500}

\* C19: every extra non-reserved, non-null field from a provider whose
\* weight is at least 0.5 (0.5 when the provider is unknown) appears in the
\* golden record unless a value for that field name was already chosen, and
\* no already-chosen value is overwritten.
C19_ExtrasCarriedOver ==
    golden # NotReconciled =>
      \A f \in ExtraFields :
         Carriers(f) # {} =>
           LET first == CHOOSE k \in Carriers(f) : \A j \in Carriers(f) : k <= j
           IN  golden[f] = site_data[first][f]

(***************************************************************************)
(* Properties of persistence                                               *)
(***************************************************************************)
\* the lead carries no value for column c, under the key of that name or
\* under the key status that save_to_database also reads for dnc_status
CarriesNoValue(lead, c) ==
    /\ lead[c] \in {Absent, None}
    /\ c = "dnc_status" => lead["status"] \in {Absent, None}

\* C20: on upsert of a lead that already has a row, a stored non-null field
\* value is never replaced when the incoming lead carries no value (null)
\* for that field.
C20_NullNeverReplacesStoredValue ==
    [][\A u \in Urls, c \in UpdatedColumns :
          (/\ leads_table[u] # NoRow
           /\ leads_table[u][c] # None
           /\ db_call'.lead["linkedinUrl"] = u
           /\ CarriesNoValue(db_call'.lead, c))
            => leads_table'[u][c] = leads_table[u][c]]_vars

(***************************************************************************)
(* Properties of the cost accounting                                       *)
(***************************************************************************)
\* C27: a station that is not invoked, because its required inputs are
\* missing or because the budget check failed, adds nothing to the running
\* cost.
C27_NotInvokedCostsNothing ==
    [][(pc = "loop" /\ Len(steps') = Len(steps) + 1 /\ ~InvokedNow)
         => total_cost' = total_cost]_vars

\* C21: persisting the same lead (same canonical URL) twice, one after the
\* other or concurrently, leaves exactly one row for that URL: never two,
\* and one as soon as a save of that URL has stored it.
C21_OneRowPerUrl ==
    /\ \A u \in Urls : row_count[u] <= 1
    /\ \A u \in Urls :
          (db_call.op \in {"insert", "update"} /\ db_call.lead["linkedinUrl"] = u)
            => (row_count[u] = 1 /\ leads_table[u] # NoRow)

C21_Witness ==
    /\ db_call.op = "update"
    /\ db_call.lead["linkedinUrl"] = "u1"
    /\ row_count["u1"] = 1
    /\ leads_table["u1"].phone = "p1" /\ db_call.lead["phone"] = Absent

(***************************************************************************)
(* Properties of the honeypot guard and the blueprint interpreter          *)
(***************************************************************************)
\* the guard asked vision about the selector of the last click step
GuardAsked == last_step.type = "click" /\ last_step.vision.kind # "not_called"

LastClick == page_clicks[Len(page_clicks)]

\* the last step made a click
LastStepClicked(kind) ==
    /\ page_clicks # <<>>
    /\ LastClick.kind = kind

\* C25: when the vision call answers found=false with no coordinates, the
\* honeypot guard blocks the selector click (fail-closed).
C25_NotFoundBlocks ==
    [][(BpClick /\ last_step'.vision.kind = "answer"
          /\ ~last_step'.vision.found
          /\ last_step'.vision.x = NoCoord /\ last_step'.vision.y = NoCoord)
        => (/\ ~last_step'.check.ok
            /\ last_step'.check.honeypot
            /\ page_clicks' = page_clicks)]_vars

C25_Witness ==
    /\ GuardAsked
    /\ last_step.vision.kind = "answer"
    /\ ~last_step.vision.found
    /\ last_step.check = Check(FALSE, TRUE)
    /\ page_clicks = <<>>
    /\ bidx = 2

\* C26: when the vision call returns null (service unreachable), the
\* honeypot guard lets the selector click proceed (fail-open).
C26_NullFailsOpen ==
    [][(BpClick /\ last_step'.vision.kind = "null")
        => (/\ last_step'.check = Check(TRUE, FALSE)
            /\ page_clicks' = Append(page_clicks,
                                     SelectorClick(last_step'.sel)))]_vars

C26_Witness ==
    /\ GuardAsked
    /\ last_step.vision.kind = "null"
    /\ LastStepClicked("selector")
    /\ LastClick.sel = last_step.sel

\* C28: a click at coordinates returned by vision grounding is performed
\* only if the coordinates lie outside every forbidden rect of the domain.
C28_GroundedClickOutsideForbidden ==
    [][(BpVlmGround /\ page_clicks' # page_clicks)
        => LET click == page_clicks'[Len(page_clicks')]
           IN  check_before_coords_click(has_page, forbidden_regions,
                                         click.x, click.y)]_vars

C29_BlockedWitness ==
    /\ last_step.type = "click"
    /\ last_step.check = Check(FALSE, TRUE)
    /\ last_step.vision.kind = "answer"
    /\ last_step.vision.found
    /\ page_clicks = <<>>
    /\ bidx = 2

(***************************************************************************)
(* Properties of the CAPTCHA agent                                         *)
(***************************************************************************)
\* C23: the resolver reports a CAPTCHA as solved if and only if no challenge
\* element remains on the page.
C23_SolvedIffChallengeGone ==
    cstatus \in {"solved", "fallback"}
        => ((cstatus = "solved") <=> ~challenge)

(***************************************************************************)
(* Properties of the Hive Mind                                             *)
(***************************************************************************)
\* C24: after an experience is stored under a screenshot hash, a recall made
\* with the same AX-tree summary and the same screenshot hash returns the
\* stored action plan.
C24_RecallReturnsStoredPlan ==
    [][(RecallExperience
          /\ experiences[recall'.hash].stored
          /\ experiences[recall'.hash].vector[1] = recall'.ax)
        => recall'.result = json_loads(experiences[recall'.hash].action_plan)]_vars

(***************************************************************************)
(* Properties of the Trauma Center                                         *)
(***************************************************************************)
\* the last three calls on the key were selector recoveries that failed
ThreeSuccessiveFailures(key) ==
    recovery_log[key] = <<"failed", "failed", "failed">>

\* C30: after three successive selector-recovery failures on the same
\* (domain, intent), a critical alert for manual review is surfaced.
C30_ThirdFailureRaisesAlert ==
    \A key \in RegistryKeys :
        (ThreeSuccessiveFailures(key) /\ vision_response.key = key)
            => vision_response.kind = "critical"

(***************************************************************************)
(* Properties of the browser sessions                                      *)
(***************************************************************************)
\* C22: every browser context that is created is closed on every exit path
\* (success, failure, timeout): once a session has ended, no context it
\* created is still open.
C22_ContextsClosedOnExit ==
    /\ scraper.pc \in {"closed", "aenter_raised"} => scraper.context # "open"
    /\ harvest.pc = "returned" => harvest.context # "open"

\* the call just answered was a grounding request for the key
GroundedNow(key) ==
    /\ vision_response'.key = key
    /\ vision_response'.kind # "general"

\* the call just answered went through find_new_selector
RecoveryAttempted(key) ==
    /\ recovery_log'[key] # <<>>
    /\ recovery_log'[key][Len(recovery_log'[key])]
          \in {"healed", "failed", "raised"}

\* C31: once selector recovery has failed three times for a (domain,
\* intent), no further automatic recovery attempt is made for that key.
C31_NoRecoveryAfterThreeFailures ==
    [][\A key \in RegistryKeys :
         (/\ ThreeSuccessiveFailures(key)
               \/ selector_failures[key] >= TraumaThreshold
          /\ GroundedNow(key))
            => ~RecoveryAttempted(key)]_vars

C33_FailoverReturnsEachOnce ==
    /\ \A i, j \in 1..Len(failover.returned) :
          failover.returned[i] = failover.returned[j] => i = j
    /\ Len(failover.returned) <= Len(MAGAZINE)
    /\ failover.tried = {failover.returned[i] : i \in 1..Len(failover.returned)}

C33_Witness ==
    /\ failover.pc = "done"
    /\ Len(failover.returned) = Len(MAGAZINE)
    /\ failover.returned[1] # MAGAZINE[1]
    /\ blacklisted # {}

(***************************************************************************)
(* Properties of the DNC Gatekeeper                                        *)
(***************************************************************************)
\* C34: stations after the DNC Gatekeeper run for a lead only if a
\* do-not-call lookup for that lead completed and returned can_contact=true;
\* a lookup that errors never lets the lead through marked as contactable.
\* Stated for the runs in which the gatekeeper was invoked.
C34_OnlyClearedLeadsPassDnc ==
    [][(/\ pc = "loop"
        /\ route[idx] = "DNCGatekeeperStation"
        /\ Len(steps') = Len(steps) + 1
        /\ InvokedNow
        /\ pc' = "loop")
       => (/\ ~steps'[Len(steps')].error
           /\ data'["dnc_status"] # Unknown
           /\ data'["can_contact"] = True)]_vars

\* centre of the element's bounding box
CentreX(elem) == elem.x + elem.width \div 2
CentreY(elem) == elem.y + elem.height \div 2

\* C35: whenever the honeypot guard approves a selector-based click, the
\* centre of the element to be clicked lies outside every forbidden rect of
\* the domain, including when the vision service returned null.
C35_ApprovedCentreOutsideForbidden ==
    [][(BpClick /\ last_step'.check.ok)
        => LET elem == dom[last_step'.sel]
           IN  ~is_in_forbidden_region(forbidden_regions,
                                       CentreX(elem), CentreY(elem))]_vars

\* recall_experience has just answered from a non-empty index
RecalledNearest == recall.call = "recall" /\ recall.score # NoScore

\* C36: recall returns an action plan only when the nearest stored
\* experience is at cosine distance below 0.02 from the query embedding; at
\* distance 0.02 or more it returns nothing.
C36_RecallOnlyBelow002 ==
    RecalledNearest => (recall.result # NoPlan <=> recall.score < 20)

\* the interpreter is at a step whose type is none of the known step types
AtUnknownStep == BpAtStep /\ instructions[bidx].type \notin KnownTypes

\* C39: a blueprint step of unknown type is skipped, and every step after it
\* still executes, in list order: the interpreter leaves the step without a
\* click and goes on with the step that follows it.
C39_UnknownStepSkipped ==
    [][AtUnknownStep
        => (/\ bstatus' = "running"
            /\ bidx' = bidx + 1
            /\ page_clicks' = page_clicks)]_vars

(***************************************************************************)
(* Properties of the database connections                                  *)
(***************************************************************************)
\* C37: every database connection that is checked out or opened is returned
\* to the pool or closed on every exit path, including when the query
\* raises: between calls no connection is held.
C37_ConnectionsReleasedOnExit ==
    conn_call.pc = "idle" => (pool_out = 0 /\ direct_open = 0)

(***************************************************************************)
(* Properties of the spider worker                                         *)
(***************************************************************************)
\* the worker handles a job that fails
FailedJobStep ==
    \/ JobInvalidJson
    \/ JobProcessingError
    \/ JobMissingSpiderId
    \/ JobSpiderNotFound
    \/ JobFailed

\* C38: a job that fails (invalid JSON, missing spider, or an exception
\* while it runs) never stops the worker loop: the worker goes on to pop the
\* next job from the queue.
C38_FailedJobKeepsWorkerPolling ==
    [][FailedJobStep
        => (spider_worker'.pc = "brpop" /\ spider_jobs' = Tail(spider_jobs))]_vars

\* a job whose spider raised has been handled, and the worker is polling
\* with another job waiting
C38_Witness ==
    /\ spider_log # <<>>
    /\ spider_log[Len(spider_log)].job = "spider_raises"
    /\ spider_worker.pc = "brpop"
    /\ spider_jobs # <<>>

(***************************************************************************)
(* Properties of the cookie store                                          *)
(***************************************************************************)
\* C40: is_fresh(platform) returns true only while cookies for that
\* platform are actually stored: the metadata never outlives the cookies.
C40_FreshOnlyWhileCookiesStored ==
    (fresh.asked /\ fresh.value) => fresh.cookies_stored

====
